---- MODULE Spec2Model ----
(***************************************************************************)
(* A model of the generic-device-plugin's GenericPlugin: device discovery  *)
(* by globbing, the refreshable device inventory (refreshDevices), the     *)
(* ListAndWatch stream loop and the Allocate handler, with the goroutines  *)
(* of several gRPC calls interleaved at the granularity of the statements  *)
(* that touch shared state (gp.devices, gp.mu, the metrics); with it the   *)
(* decoding and validation of the configured devices in Main, the path and *)
(* USB discovery, the concurrent scan of the USB bus, and plugin.Run with  *)
(* the actors of runOnce.                                                  *)
(***************************************************************************)
EXTENDS Integers, Sequences, FiniteSets, TLC

(***************************************************************************)
(* Bounds of the model.                                                    *)
(***************************************************************************)
\* Allocate calls are issued only while the allocation counter is below this.
MaxAllocations == 2
\* Largest number of container requests in one AllocateRequest.
MaxContainers == 2
\* Largest number of device ids in one container request.
MaxIDs == 2

(***************************************************************************)
(* The environment: a host file system with a few device nodes.            *)
(***************************************************************************)
\* Every path that may exist on the host, in lexicographic (byte) order.
Lexicographic == << "/dev/ttyUSB0", "/dev/ttyUSB1" >>

AllPaths == { Lexicographic[n] : n \in 1..Len(Lexicographic) }

\* The patterns used by the device specifications, with the paths of
\* AllPaths each one matches; "[" is a malformed pattern.
BadPattern == "/dev/["

PatternMatches(pattern) ==
    CASE pattern = "/dev/ttyUSB*" -> { "/dev/ttyUSB0", "/dev/ttyUSB1" }
      [] pattern = "/dev/ttyUSB0" -> { "/dev/ttyUSB0" }
      [] pattern = "/dev/ttyUSB1" -> { "/dev/ttyUSB1" }
      [] OTHER                    -> {}

\* filepath.Glob: the existing paths that match, or ErrBadPattern.
Glob(pattern, files) ==
    IF pattern = BadPattern
    THEN [err |-> "syntax error in pattern", matches |-> {}]
    ELSE [err |-> "", matches |-> PatternMatches(pattern) \cap files]

\* sort.Strings: the matches as a sequence in increasing string order.
RECURSIVE SortStrings(_, _)
SortStrings(matches, n) ==
    IF n = 0 THEN << >>
    ELSE LET rest == SortStrings(matches, n - 1)
         IN  IF Lexicographic[n] \in matches
             THEN Append(rest, Lexicographic[n])
             ELSE rest

(***************************************************************************)
(* Device specifications (after DeviceSpec.Default).                       *)
(***************************************************************************)
DevicePathType == "Device"
MountPathType == "Mount"
Healthy == "Healthy"

Path(path, mountPath, permissions, readOnly, type) ==
    [Path |-> path, MountPath |-> mountPath, Permissions |-> permissions,
     ReadOnly |-> readOnly, Type |-> type]

\* {"name": "serial", "groups": [{"paths": [{"path": "/dev/ttyUSB*"}]}]}
SerialSpec ==
    [Name |-> "serial",
     Groups |-> << [Paths |-> << Path("/dev/ttyUSB*", "", "mrw", FALSE, DevicePathType) >>,
                    Count |-> 1] >>]

\* A group that zips the first serial device, mounted at a fixed place,
\* with a bind mount of a serial node, and can be mounted twice.
CaptureSpec ==
    [Name |-> "capture",
     Groups |-> << [Paths |-> << Path("/dev/ttyUSB0", "/dev/modem", "rw", FALSE, DevicePathType),
                                 Path("/dev/ttyUSB*", "", "", TRUE, MountPathType) >>,
                    Count |-> 2] >>]

\* A specification whose pattern is malformed.
BrokenSpec ==
    [Name |-> "broken",
     Groups |-> << [Paths |-> << Path(BadPattern, "", "mrw", FALSE, DevicePathType) >>,
                    Count |-> 1] >>]

DeviceSpecs == { SerialSpec, CaptureSpec, BrokenSpec }

(***************************************************************************)
(* discover: expansion of a DeviceSpec into devices.                       *)
(***************************************************************************)
Digits == << "0", "1", "2", "3", "4", "5", "6", "7", "8", "9" >>

\* A conversion that keeps only the last decimal digit.
FormatUintLastDigit(j) == Digits[(j % 10) + 1]

\* strconv.FormatUint(j, 10)
RECURSIVE FormatUint(_)
FormatUint(j) ==
    IF j < 10 THEN Digits[j + 1]
    ELSE FormatUint(j \div 10) \o Digits[(j % 10) + 1]

\* fmt.Sprintf("%x", h.Sum(nil)): the digest of the bytes written to the
\* hash, as an injective function of those bytes.
Sha1Hex(written) == "sha1(" \o written \o ")"

\* The sorted matches of every path of the group, or the first Glob error.
GroupGlobs(group, files) ==
    [k \in 1..Len(group.Paths) |-> Glob(group.Paths[k].Path, files)]

GroupPaths(group, files) ==
    [k \in 1..Len(group.Paths) |->
        SortStrings(GroupGlobs(group, files)[k].matches, Len(Lexicographic))]

\* A length that is that of the first path of the group, whatever the
\* other paths match.
GroupLengthOfFirst(paths, k) ==
    IF k = 0 THEN 0 ELSE Len(paths[1])

\* "Keep track of the shortest length in the group": the value of length
\* after the first k paths of the group.
RECURSIVE GroupLength(_, _)
GroupLength(paths, k) ==
    IF k = 0 THEN 0
    ELSE LET length == GroupLength(paths, k - 1)
         IN  IF length = 0 \/ Len(paths[k]) < length
             THEN Len(paths[k])
             ELSE length

\* The device built for sorted index i (0-based) and repetition j after
\* the first k paths of the group; written is what the hash has been fed.
RECURSIVE BuildDevice(_, _, _, _, _)
BuildDevice(group, paths, i, j, k) ==
    IF k = 0
    THEN [deviceSpecs |-> << >>, mounts |-> << >>, written |-> FormatUint(j)]
    ELSE LET d == BuildDevice(group, paths, i, j, k - 1)
             path == group.Paths[k]
             hostPath == paths[k][i + 1]
             mountPath == IF path.MountPath = "" THEN hostPath ELSE path.MountPath
         IN  [deviceSpecs |->
                 IF path.Type = DevicePathType
                 THEN Append(d.deviceSpecs,
                             [HostPath |-> hostPath, ContainerPath |-> mountPath,
                              Permissions |-> path.Permissions])
                 ELSE d.deviceSpecs,
              mounts |->
                 IF path.Type = MountPathType
                 THEN Append(d.mounts,
                             [HostPath |-> hostPath, ContainerPath |-> mountPath,
                              ReadOnly |-> path.ReadOnly])
                 ELSE d.mounts,
              written |-> d.written \o hostPath]

\* A device whose hash is computed once per index, with repetition 0.
NewDeviceUnseeded(group, paths, i, j) ==
    LET d == BuildDevice(group, paths, i, 0, Len(group.Paths))
    IN  [ID |-> Sha1Hex(d.written), Health |-> Healthy,
         deviceSpecs |-> d.deviceSpecs, mounts |-> d.mounts]

\* A device that is created with health Unhealthy.
NewDeviceUnhealthy(group, paths, i, j) ==
    LET d == BuildDevice(group, paths, i, j, Len(group.Paths))
    IN  [ID |-> Sha1Hex(d.written), Health |-> "Unhealthy",
         deviceSpecs |-> d.deviceSpecs, mounts |-> d.mounts]

NewDevice(group, paths, i, j) ==
    LET d == BuildDevice(group, paths, i, j, Len(group.Paths))
    IN  [ID |-> Sha1Hex(d.written), Health |-> Healthy,
         deviceSpecs |-> d.deviceSpecs, mounts |-> d.mounts]

\* The outcome of one group: a Glob error, an index-out-of-range panic
\* (paths[k][i] with i beyond the matches of path k), or the devices in
\* the order they are appended (index i outermost, repetition j inside).
DiscoverGroup(group, files) ==
    LET globs == GroupGlobs(group, files)
        paths == GroupPaths(group, files)
        length == GroupLength(paths, Len(group.Paths))
    IN  IF \E k \in 1..Len(group.Paths) : globs[k].err # ""
        THEN [kind |-> "error", devices |-> << >>]
        ELSE IF group.Count > 0 /\ \E k \in 1..Len(group.Paths) : Len(paths[k]) < length
        THEN [kind |-> "panic", devices |-> << >>]
        ELSE [kind |-> "ok",
              devices |-> [n \in 1..(length * group.Count) |->
                              NewDevice(group, paths, (n - 1) \div group.Count,
                                        (n - 1) % group.Count)]]

\* gp.discover(): the groups in order; the first group that fails ends it.
\* All the Glob calls of one discovery see the same files: device nodes
\* appear and disappear between discoveries, not during one.
RECURSIVE discoverGroups(_, _, _)
discoverGroups(spec, files, g) ==
    IF g = 0 THEN [kind |-> "ok", devices |-> << >>]
    ELSE LET before == discoverGroups(spec, files, g - 1)
             this == DiscoverGroup(spec.Groups[g], files)
         IN  IF before.kind # "ok" THEN before
             ELSE IF this.kind # "ok" THEN this
             ELSE [kind |-> "ok", devices |-> before.devices \o this.devices]

discover(spec, files) == discoverGroups(spec, files, Len(spec.Groups))

(***************************************************************************)
(* discoverPath: the path groups of a DeviceSpec, on a host with more      *)
(* device nodes, whose directories are listed in any order.                *)
(***************************************************************************)
\* Largest count of a path group.
MaxCount == 2
\* Largest repetition index whose id input is compared.
MaxRepetition == 11

\* The device nodes that may exist, in lexicographic (byte) order.
DevNodes == << "/dev/ttyUSB0", "/dev/ttyUSB1", "/dev/ttyUSB2", "/dev/ttyUSB3",
               "/dev/video0", "/dev/video1" >>

NodePaths == { DevNodes[n] : n \in 1..Len(DevNodes) }

\* The device nodes a pattern matches.
NodeMatches(pattern) ==
    CASE pattern = "/dev/ttyUSB*" ->
           { "/dev/ttyUSB0", "/dev/ttyUSB1", "/dev/ttyUSB2", "/dev/ttyUSB3" }
      [] pattern = "/dev/video*" -> { "/dev/video0", "/dev/video1" }
      [] OTHER -> { pattern } \cap NodePaths

\* The orders in which the members of a finite set can be listed.
Listings(S) ==
    { order \in [1..Cardinality(S) -> S] :
        \A m, n \in 1..Cardinality(S) : order[m] = order[n] => m = n }

\* filepath.Glob(path.Path): ErrBadPattern, or the existing paths that
\* match, in an order that is up to the file system.
GlobListings(pattern, files) ==
    IF pattern = BadPattern
    THEN { [err |-> "syntax error in pattern", matches |-> << >>] }
    ELSE { [err |-> "", matches |-> order] :
           order \in Listings(NodeMatches(pattern) \cap files) }

\* The place of a device node in the byte order of strings.
Rank(p) == CHOOSE n \in 1..Len(DevNodes) : DevNodes[n] = p

\* A sort.Strings that is left out.
Unsorted(matches) == matches

\* sort.Strings(matches): the same strings in increasing order (the
\* strings of a listing are distinct).
sortStrings(matches) ==
    LET strings == { matches[n] : n \in 1..Len(matches) }
    IN  [n \in 1..Len(matches) |->
            CHOOSE x \in strings :
                Cardinality({ y \in strings : Rank(y) < Rank(x) }) = n - 1]

\* The ways the Glob calls of one group can turn out, one per path.
GroupListings(group, files) ==
    LET each == [k \in 1..Len(group.Paths) |-> GlobListings(group.Paths[k].Path, files)]
    IN  { globs \in [1..Len(group.Paths) -> UNION { each[k] : k \in 1..Len(group.Paths) }] :
            \A k \in 1..Len(group.Paths) : globs[k] \in each[k] }

\* paths[i] = matches, after sort.Strings(matches), for every path.
SortedPaths(group, globs) ==
    [k \in 1..Len(group.Paths) |-> sortStrings(globs[k].matches)]

\* The outcome of one group of discoverPath given what its Glob calls
\* returned: a Glob error, an index-out-of-range panic (paths[k][i] with i
\* beyond the matches of path k), or the devices in the order they are
\* appended.
DiscoverPathGroup(group, globs) ==
    LET paths == SortedPaths(group, globs)
        length == GroupLength(paths, Len(group.Paths))
    IN  IF \E k \in 1..Len(group.Paths) : globs[k].err # ""
        THEN [kind |-> "error", devices |-> << >>]
        ELSE IF group.Count > 0 /\ \E k \in 1..Len(group.Paths) : Len(paths[k]) < length
        THEN [kind |-> "panic", devices |-> << >>]
        ELSE [kind |-> "ok",
              devices |-> [n \in 1..(length * group.Count) |->
                              NewDevice(group, paths, (n - 1) \div group.Count,
                                        (n - 1) % group.Count)]]

\* The outcomes of gp.discoverPath() over the first g groups; the first
\* group that fails ends it.  All the Glob calls of one discovery see the
\* same files.
RECURSIVE discoverPathGroups(_, _, _)
discoverPathGroups(spec, files, g) ==
    IF g = 0 THEN { [kind |-> "ok", devices |-> << >>] }
    ELSE { IF before.kind # "ok" THEN before
           ELSE IF DiscoverPathGroup(spec.Groups[g], globs).kind # "ok"
           THEN DiscoverPathGroup(spec.Groups[g], globs)
           ELSE [kind |-> "ok",
                 devices |-> before.devices
                                \o DiscoverPathGroup(spec.Groups[g], globs).devices] :
           before \in discoverPathGroups(spec, files, g - 1),
           globs \in GroupListings(spec.Groups[g], files) }

discoverPath(spec, files) == discoverPathGroups(spec, files, Len(spec.Groups))

\* A serial adapter together with a camera, each pair allocatable count
\* times, with the patterns in either order.
SerialCameraSpec(count) ==
    [Name |-> "serial-camera",
     Groups |-> << [Paths |-> << Path("/dev/ttyUSB*", "", "mrw", FALSE, DevicePathType),
                                 Path("/dev/video*", "", "mrw", FALSE, DevicePathType) >>,
                    Count |-> count] >>]

CameraSerialSpec(count) ==
    [Name |-> "camera-serial",
     Groups |-> << [Paths |-> << Path("/dev/video*", "", "mrw", FALSE, DevicePathType),
                                 Path("/dev/ttyUSB*", "/dev/serial", "rw", FALSE, DevicePathType) >>,
                    Count |-> count] >>]

PathDeviceSpecs ==
    { SerialCameraSpec(count) : count \in 1..MaxCount }
        \cup { CameraSerialSpec(count) : count \in 1..MaxCount }

\* Two groups scheduled under one name: the serial adapters and,
\* apart from them, the first serial adapter.
OverlappingGroupsSpec(count) ==
    [Name |-> "serial-twice",
     Groups |-> << [Paths |-> << Path("/dev/ttyUSB*", "", "mrw", FALSE, DevicePathType) >>,
                    Count |-> count],
                   [Paths |-> << Path("/dev/ttyUSB0", "", "mrw", FALSE, DevicePathType) >>,
                    Count |-> count] >>]

\* Two groups that share no device node: the serial adapters and the
\* cameras.
DisjointGroupsSpec(count) ==
    [Name |-> "serial-or-camera",
     Groups |-> << [Paths |-> << Path("/dev/ttyUSB*", "", "mrw", FALSE, DevicePathType) >>,
                    Count |-> count],
                   [Paths |-> << Path("/dev/video*", "", "mrw", FALSE, DevicePathType) >>,
                    Count |-> count] >>]

GroupedPathSpecs ==
    { OverlappingGroupsSpec(count) : count \in 1..MaxCount }
        \cup { DisjointGroupsSpec(count) : count \in 1..MaxCount }

(***************************************************************************)
(* Device specifications as they are configured: decoding and defaulting.  *)
(***************************************************************************)
\* One entry of "paths" as written in the configuration; a key that is
\* left out has its zero value.
ConfiguredPath(path, mountPath, optional) ==
    [path |-> path, mountPath |-> mountPath, permissions |-> "", readOnly |-> FALSE,
     type |-> "", optional |-> optional]

\* Decoding into the Path struct: the keys that name a field of the struct
\* set it, any other key of the configuration is dropped.
UnmarshalPath(raw) ==
    Path(raw.path, raw.mountPath, raw.permissions, raw.readOnly, raw.type)

\* One entry of "usb" as written in the configuration, its ids as numbers.
ConfiguredUSB(vendor, product, serial) ==
    [vendor |-> vendor, product |-> product, serial |-> serial]

\* Decoding into the USBSpec struct, which has a vendor and a product.
UnmarshalUSB(raw) == [Vendor |-> raw.vendor, Product |-> raw.product]

\* Decoding of a device specification: its name and its groups, each with
\* its paths, its USB specifications and its count.
Unmarshal(raw) ==
    [Name |-> raw.name,
     Groups |-> [g \in 1..Len(raw.groups) |->
                   [Paths |-> [k \in 1..Len(raw.groups[g].paths) |->
                                  UnmarshalPath(raw.groups[g].paths[k])],
                    USBSpecs |-> [k \in 1..Len(raw.groups[g].usb) |->
                                     UnmarshalUSB(raw.groups[g].usb[k])],
                    Count |-> raw.groups[g].count]]]

\* A defaulting that leaves the permissions as they are configured.
DefaultPathKeepsPermissions(p) ==
    [p EXCEPT !.Type = IF p.Type = "" THEN DevicePathType ELSE p.Type]

\* DeviceSpec.Default, for one path: the type defaults to Device and the
\* permissions of a device to mrw.
DefaultPath(p) ==
    LET type == IF p.Type = "" THEN DevicePathType ELSE p.Type
    IN  [p EXCEPT !.Type = type,
                  !.Permissions = IF type = DevicePathType /\ p.Permissions = ""
                                  THEN "mrw" ELSE p.Permissions]

\* DeviceSpec.Default: a count of zero becomes one, and every path is
\* defaulted.
Default(d) ==
    [d EXCEPT !.Groups =
        [g \in 1..Len(d.Groups) |->
            [d.Groups[g] EXCEPT
                !.Count = IF d.Groups[g].Count = 0 THEN 1 ELSE d.Groups[g].Count,
                !.Paths = [k \in 1..Len(d.Groups[g].Paths) |->
                              DefaultPath(d.Groups[g].Paths[k])]]]]

\* {"name": "tty", "groups": [{"paths": [{"path": "/dev/ttyUSB*"}]}]}
TtyConfig ==
    [name |-> "tty",
     groups |-> << [paths |-> << ConfiguredPath("/dev/ttyUSB*", "", FALSE) >>,
                    usb |-> << >>,
                    count |-> 0] >>]

\* The same devices, all mounted at one place in the container.
TtyAtConfig ==
    [name |-> "tty-at",
     groups |-> << [paths |-> << ConfiguredPath("/dev/ttyUSB*", "/dev/serial", FALSE) >>,
                    usb |-> << >>,
                    count |-> 0] >>]

\* The same devices, mounted under a directory of the container.
TtyUnderConfig ==
    [name |-> "tty-under",
     groups |-> << [paths |-> << ConfiguredPath("/dev/ttyUSB*", "/dev/serial/", FALSE) >>,
                    usb |-> << >>,
                    count |-> 0] >>]

\* A group all of whose paths are optional.
OptionalConfig(count) ==
    [name |-> "optional",
     groups |-> << [paths |-> << ConfiguredPath("/dev/ttyUSB0", "", TRUE),
                                 ConfiguredPath("/dev/ttyUSB1", "", TRUE),
                                 ConfiguredPath("/dev/video0", "", TRUE) >>,
                    usb |-> << >>,
                    count |-> count] >>]

\* The serial numbers of the devices of the bus, as their serial files
\* read.
SysfsSerial(name) ==
    CASE name = "1-1" -> "51"
      [] name = "1-2" -> "52"
      [] OTHER -> ""

\* The key with serial number 52.
KeySerialConfig ==
    [name |-> "key-52",
     groups |-> << [paths |-> << >>,
                    usb |-> << ConfiguredUSB(4176, 1031, "52") >>,
                    count |-> 0] >>]

\* A vendor and product, and again with a serial number, in one group, as
\* in the usage of --device.
OverlapConfig ==
    [name |-> "keys",
     groups |-> << [paths |-> << >>,
                    usb |-> << ConfiguredUSB(4176, 1031, ""),
                               ConfiguredUSB(4176, 1031, "51") >>,
                    count |-> 0] >>]

\* The key, twice allocatable, and the root hub, in one group.
KeyAndHubConfig ==
    [name |-> "key-and-hub",
     groups |-> << [paths |-> << >>,
                    usb |-> << ConfiguredUSB(4176, 1031, ""),
                               ConfiguredUSB(7531, 2, "") >>,
                    count |-> 2] >>]

UsbConfigs == { KeySerialConfig, OverlapConfig, KeyAndHubConfig }

ConfiguredUsbSpecs == { Default(Unmarshal(raw)) : raw \in UsbConfigs }

PathConfigs ==
    { TtyConfig, TtyAtConfig, TtyUnderConfig }
        \cup { OptionalConfig(count) : count \in 0..MaxCount }

\* The device specifications the plugins of these configurations are
\* constructed with.
ConfiguredPathSpecs == { Default(Unmarshal(raw)) : raw \in PathConfigs }

(***************************************************************************)
(* USB discovery: the sysfs tree of the USB bus and its scan.              *)
(***************************************************************************)
usbDevicesDir == "/sys/bus/usb/devices/"

\* The content of an attribute file that does not exist.
NoFile == << "ENOENT" >>

\* The directory entries that may exist under usbDevicesDir, each with the
\* content of its attribute files as a sequence of characters: two
\* security keys of the same vendor and product, the root hub of bus 1 and
\* the interface directory of the first key, which has no idVendor.
SysfsNames == { "1-1", "1-2", "usb1", "1-1:1.0" }

SysfsEntry(name) ==
    CASE name = "1-1" ->
           [Name |-> name, IsDir |-> TRUE,
            idVendor |-> << "1", "0", "5", "0", "\n" >>,
            idProduct |-> << "0", "4", "0", "7", "\n" >>,
            busnum |-> << "1", "\n" >>, devnum |-> << "2", "2", "\n" >>]
      [] name = "1-2" ->
           [Name |-> name, IsDir |-> TRUE,
            idVendor |-> << "1", "0", "5", "0", "\n" >>,
            idProduct |-> << "0", "4", "0", "7", "\n" >>,
            busnum |-> << "1", "\n" >>, devnum |-> << "7", "\n" >>]
      [] name = "usb1" ->
           [Name |-> name, IsDir |-> TRUE,
            idVendor |-> << "1", "d", "6", "b", "\n" >>,
            idProduct |-> << "0", "0", "0", "2", "\n" >>,
            busnum |-> << "1", "\n" >>, devnum |-> << "1", "\n" >>]
      [] name = "1-3" ->
           [Name |-> name, IsDir |-> TRUE,
            idVendor |-> << "1", "0", "5", "0", "\n" >>,
            idProduct |-> << "\n" >>,
            busnum |-> << "1", "\n" >>, devnum |-> << "9", "\n" >>]
      [] name = "lock" ->
           [Name |-> name, IsDir |-> FALSE,
            idVendor |-> NoFile, idProduct |-> NoFile,
            busnum |-> NoFile, devnum |-> NoFile]
      [] OTHER ->
           [Name |-> name, IsDir |-> TRUE,
            idVendor |-> NoFile, idProduct |-> NoFile,
            busnum |-> NoFile, devnum |-> NoFile]

\* filepath.Join(usbDevicesDir, dir.Name())
SysfsPath(name) == usbDevicesDir \o name

\* Every path of the USB sysfs tree that may exist: the bus root and its
\* entries.
UsbPaths == { usbDevicesDir } \cup { SysfsPath(name) : name \in SysfsNames }

HexDigits == << "0", "1", "2", "3", "4", "5", "6", "7", "8", "9",
                "a", "b", "c", "d", "e", "f" >>
UpperHexDigits == << "0", "1", "2", "3", "4", "5", "6", "7", "8", "9",
                     "A", "B", "C", "D", "E", "F" >>

\* The value of a hexadecimal digit, or -1 for any other character.
HexValue(c) ==
    IF \E n \in 1..16 : HexDigits[n] = c
    THEN (CHOOSE n \in 1..16 : HexDigits[n] = c) - 1
    ELSE IF \E n \in 1..16 : UpperHexDigits[n] = c
    THEN (CHOOSE n \in 1..16 : UpperHexDigits[n] = c) - 1
    ELSE -1

\* strconv.ParseUint(datastr, 16, 16) over the first n characters: a syntax
\* error for an empty string or a character that is no digit, a range
\* error for a value beyond 16 bits.
RECURSIVE ParseUint16(_, _)
ParseUint16(datastr, n) ==
    IF n = 0 THEN [err |-> IF Len(datastr) = 0 THEN "invalid syntax" ELSE "", value |-> 0]
    ELSE LET before == ParseUint16(datastr, n - 1)
             v == HexValue(datastr[n])
         IN  IF before.err = "invalid syntax" THEN before
             ELSE IF v < 0 THEN [err |-> "invalid syntax", value |-> 0]
             ELSE IF before.err # "" THEN before
             ELSE IF before.value * 16 + v >= 2^16
             THEN [err |-> "value out of range", value |-> 2^16 - 1]
             ELSE [err |-> "", value |-> before.value * 16 + v]

\* readFileToUint16: the file without its newlines, parsed as hexadecimal.
readFileToUint16(content) ==
    IF content = NoFile THEN [err |-> "no such file or directory", value |-> 0]
    ELSE LET datastr == SelectSeq(content, LAMBDA c : c # "\n")
         IN  ParseUint16(datastr, Len(datastr))

\* One scan task: the usbDevice of a directory entry, or the error that
\* makes the scan leave the entry out.
queryUSBDeviceCharacteristicsByDirectory(dir) ==
    LET vnd == readFileToUint16(dir.idVendor)
        prd == readFileToUint16(dir.idProduct)
        bus == readFileToUint16(dir.busnum)
        busLoc == readFileToUint16(dir.devnum)
        none == [Vendor |-> 0, Product |-> 0, Bus |-> 0, BusDevice |-> 0]
    IN  IF ~dir.IsDir THEN [err |-> "not a directory", result |-> none]
        ELSE IF vnd.err # "" THEN [err |-> vnd.err, result |-> none]
        ELSE IF prd.err # "" THEN [err |-> prd.err, result |-> none]
        ELSE IF bus.err # "" THEN [err |-> bus.err, result |-> none]
        ELSE IF busLoc.err # "" THEN [err |-> busLoc.err, result |-> none]
        ELSE [err |-> "",
              result |-> [Vendor |-> vnd.value, Product |-> prd.value,
                          Bus |-> bus.value, BusDevice |-> busLoc.value]]

\* fmt.Sprintf("%+04d", n): the sign, then the digits zero-padded so that
\* the whole is at least four characters wide.
SprintfPlus04d(n) ==
    "+" \o (IF n < 10 THEN "00" ELSE IF n < 100 THEN "0" ELSE "") \o FormatUint(n)

\* usbDevice.BusPath: fmt.Sprintf(usbDevBus, dev.Bus, dev.BusDevice)
BusPath(dev) ==
    "/dev/bus/usb/" \o SprintfPlus04d(dev.Bus) \o "/" \o SprintfPlus04d(dev.BusDevice)

\* The orders in which the members of a finite set can be delivered.
Orders(S) ==
    { order \in [1..Cardinality(S) -> S] :
        \A m, n \in 1..Cardinality(S) : order[m] = order[n] => m = n }

\* enumerateUSBDevices(dir): an error when the directory cannot be read;
\* otherwise one task per entry runs concurrently and sends its usbDevice
\* to a channel the caller appends from, so the devices come in any of the
\* orders in which the successful tasks may be scheduled.
enumerateUSBDevices(dir, files) ==
    IF dir \notin files
    THEN { [err |-> "no such file or directory", specs |-> << >>] }
    ELSE LET allDevs == { SysfsEntry(name) : name \in { n \in SysfsNames : SysfsPath(n) \in files } }
             found == { dev \in allDevs : queryUSBDeviceCharacteristicsByDirectory(dev).err = "" }
         IN  { [err |-> "",
                specs |-> [n \in 1..Cardinality(found) |->
                              queryUSBDeviceCharacteristicsByDirectory(order[n]).result]] :
               order \in Orders(found) }

\* searchUSBDevices: the devices of the given vendor and product, in the
\* order of the slice.
searchUSBDevices(usbDevs, vendor, product) ==
    SelectSeq(usbDevs, LAMBDA dev : dev.Vendor = vendor /\ dev.Product = product)

\* paths after the first n USBSpecs of the group: the BusPath of every
\* match, appended in order.
RECURSIVE UsbGroupPaths(_, _, _)
UsbGroupPaths(group, usbDevs, n) ==
    IF n = 0 THEN << >>
    ELSE LET matches == searchUSBDevices(usbDevs, group.USBSpecs[n].Vendor,
                                         group.USBSpecs[n].Product)
         IN  UsbGroupPaths(group, usbDevs, n - 1)
                 \o [m \in 1..Len(matches) |-> BusPath(matches[m])]

\* What the hash of repetition j has been fed after the first n paths.
RECURSIVE UsbWritten(_, _, _)
UsbWritten(paths, j, n) ==
    IF n = 0 THEN FormatUint(j)
    ELSE UsbWritten(paths, j, n - 1) \o paths[n]

\* The device of repetition j of a USB group: every matched path mounted
\* at its own place.
NewUsbDevice(paths, j) ==
    [ID |-> Sha1Hex(UsbWritten(paths, j, Len(paths))), Health |-> Healthy,
     deviceSpecs |-> [n \in 1..Len(paths) |->
                         [HostPath |-> paths[n], ContainerPath |-> paths[n],
                          Permissions |-> "rw"]],
     mounts |-> << >>]

\* The devices of one USB group, given the enumeration of the bus.
DiscoverUsbGroup(group, usbDevs) ==
    LET paths == UsbGroupPaths(group, usbDevs, Len(group.USBSpecs))
    IN  IF Len(paths) > 0
        THEN [j \in 1..group.Count |-> NewUsbDevice(paths, j - 1)]
        ELSE << >>

\* The outcomes of gp.discoverUSB() over the first g groups: the bus is
\* enumerated once per group, and an enumeration that fails ends the
\* discovery with its error.  All the reads of one discovery see the same
\* files.
RECURSIVE discoverUSBGroups(_, _, _)
discoverUSBGroups(spec, files, g) ==
    IF g = 0 THEN { [kind |-> "ok", devices |-> << >>] }
    ELSE { IF before.kind # "ok" THEN before
           ELSE IF scan.err # "" THEN [kind |-> "error", devices |-> << >>]
           ELSE [kind |-> "ok",
                 devices |-> before.devices \o DiscoverUsbGroup(spec.Groups[g], scan.specs)] :
           before \in discoverUSBGroups(spec, files, g - 1),
           scan \in enumerateUSBDevices(usbDevicesDir, files) }

discoverUSB(spec, files) == discoverUSBGroups(spec, files, Len(spec.Groups))

\* USB device specifications: a security key that can be allocated twice,
\* and a hub together with a key, one group each.
KeySpec ==
    [Name |-> "key",
     Groups |-> << [Paths |-> << >>,
                    USBSpecs |-> << [Vendor |-> 4176, Product |-> 1031] >>,
                    Count |-> 2] >>]

HubAndKeySpec ==
    [Name |-> "hub-and-key",
     Groups |-> << [Paths |-> << >>,
                    USBSpecs |-> << [Vendor |-> 7531, Product |-> 2] >>,
                    Count |-> 1],
                   [Paths |-> << >>,
                    USBSpecs |-> << [Vendor |-> 4176, Product |-> 1031] >>,
                    Count |-> 1] >>]

\* The same group of one key written twice.
TwinKeySpec ==
    [Name |-> "twin-key",
     Groups |-> << [Paths |-> << >>,
                    USBSpecs |-> << [Vendor |-> 4176, Product |-> 1031] >>,
                    Count |-> 1],
                   [Paths |-> << >>,
                    USBSpecs |-> << [Vendor |-> 4176, Product |-> 1031] >>,
                    Count |-> 1] >>]

UsbDeviceSpecs == { KeySpec, HubAndKeySpec, TwinKeySpec }

\* The outcomes gp.discover() can have: for a specification of USB groups
\* those of discoverUSB, for one of path groups on the host with more
\* device nodes those of discoverPath, otherwise that of discover.
Discoveries(spec, files) ==
    IF spec \in UsbDeviceSpecs \cup ConfiguredUsbSpecs THEN discoverUSB(spec, files)
    ELSE IF spec \in PathDeviceSpecs \cup ConfiguredPathSpecs \cup GroupedPathSpecs
    THEN discoverPath(spec, files)
    ELSE { discover(spec, files) }


(***************************************************************************)
(* Allocate requests and the response computation.                         *)
(***************************************************************************)
IDsOf(devs) == { devs[n].ID : n \in 1..Len(devs) }

\* The ids a kubelet may ask for under a specification: those it can have
\* been sent when every path existed; on a host where some path is missing
\* some of them are not in the inventory.
RequestIDs(spec) == IDsOf(discover(spec, AllPaths).devices)

SeqsUpTo(S, n) == UNION { [1..m -> S] : m \in 0..n }

\* AllocateRequest.ContainerRequests, each one its DevicesIDs.
Requests(spec, containers, ids) == SeqsUpTo(SeqsUpTo(RequestIDs(spec), ids), containers)

\* The requests made of a plugin, by its specification: at most one
\* container request of at most one id, or up to the bounds.
SmallRequests == [spec \in DeviceSpecs |-> Requests(spec, 1, 1)]

LargeRequests == [spec \in DeviceSpecs |-> Requests(spec, MaxContainers, MaxIDs)]

\* An inner loop that skips an id the map does not hold ("continue" in
\* place of the return).
RECURSIVE AllocateContainerSkipUnknown(_, _, _)
AllocateContainerSkipUnknown(DevicesIDs, n, devmap) ==
    IF n = 0 THEN [err |-> "", id |-> "", Devices |-> << >>, Mounts |-> << >>]
    ELSE LET resp == AllocateContainerSkipUnknown(DevicesIDs, n - 1, devmap)
             id == DevicesIDs[n]
         IN  IF id \notin DOMAIN devmap THEN resp
             ELSE [err |-> "", id |-> "",
                   Devices |-> resp.Devices \o devmap[id].deviceSpecs,
                   Mounts |-> resp.Mounts \o devmap[id].mounts]

\* An inner loop that adds a device only the first time its id is asked for.
RECURSIVE AllocateContainerOnce(_, _, _)
AllocateContainerOnce(DevicesIDs, n, devmap) ==
    IF n = 0 THEN [err |-> "", id |-> "", Devices |-> << >>, Mounts |-> << >>]
    ELSE LET resp == AllocateContainerOnce(DevicesIDs, n - 1, devmap)
             id == DevicesIDs[n]
         IN  IF resp.err # "" THEN resp
             ELSE IF id \notin DOMAIN devmap
             THEN [err |-> "requested device does not exist", id |-> id,
                   Devices |-> << >>, Mounts |-> << >>]
             ELSE IF \E m \in 1..(n - 1) : DevicesIDs[m] = id THEN resp
             ELSE [err |-> "", id |-> "",
                   Devices |-> resp.Devices \o devmap[id].deviceSpecs,
                   Mounts |-> resp.Mounts \o devmap[id].mounts]

\* The inner loop of Allocate over the first n ids of one container request.
RECURSIVE AllocateContainer(_, _, _)
AllocateContainer(DevicesIDs, n, devmap) ==
    IF n = 0 THEN [err |-> "", id |-> "", Devices |-> << >>, Mounts |-> << >>]
    ELSE LET resp == AllocateContainer(DevicesIDs, n - 1, devmap)
             id == DevicesIDs[n]
         IN  IF resp.err # "" THEN resp
             ELSE IF id \notin DOMAIN devmap
             THEN [err |-> "requested device does not exist", id |-> id,
                   Devices |-> << >>, Mounts |-> << >>]
             ELSE IF devmap[id].Health # Healthy
             THEN [err |-> "requested device is not healthy", id |-> id,
                   Devices |-> << >>, Mounts |-> << >>]
             ELSE [err |-> "", id |-> "",
                   Devices |-> resp.Devices \o devmap[id].deviceSpecs,
                   Mounts |-> resp.Mounts \o devmap[id].mounts]

\* The outer loop of Allocate over the first c container requests: the
\* responses so far, or the error that ended the call (and then no response).
RECURSIVE AllocateContainers(_, _, _)
AllocateContainers(ContainerRequests, c, devmap) ==
    IF c = 0 THEN [err |-> "", id |-> "", ContainerResponses |-> << >>]
    ELSE LET res == AllocateContainers(ContainerRequests, c - 1, devmap)
             resp == AllocateContainer(ContainerRequests[c], Len(ContainerRequests[c]), devmap)
         IN  IF res.err # "" THEN res
             ELSE IF resp.err # ""
             THEN [err |-> resp.err, id |-> resp.id, ContainerResponses |-> << >>]
             ELSE [err |-> "", id |-> "",
                   ContainerResponses |->
                       Append(res.ContainerResponses,
                              [Devices |-> resp.Devices, Mounts |-> resp.Mounts])]

(***************************************************************************)
(* The state of one GenericPlugin and of the calls running on it.          *)
(***************************************************************************)
Streams == { "s1", "s2" }
Allocators == { "a1" }
Unlocked == "unlocked"

VARIABLES
    ds,                 \* gp.ds, fixed at construction
    files,              \* the paths that exist on the host
    devices,            \* gp.devices: id -> device
    mu,                 \* gp.mu: Unlocked or the call that holds it
    deviceGauge,        \* gp.deviceGauge
    allocationsCounter, \* gp.allocationsCounter
    panicked,           \* the process died of a runtime panic or fatal error
    stream,             \* per ListAndWatch call: position and locals
    alloc,              \* per Allocate call: position, request and result
    source,             \* the discovery result gp.devices was last rebuilt from
    ready,              \* some refreshDevices has replaced gp.devices and returned
    cancelled,          \* the context of plugin.Run is cancelled, its gRPC server stopped
    scan,               \* one call of enumerateUSBDevices: its tasks, channel and result
    main,               \* Main: its position, the configured devices, its error
    plugin              \* plugin.Run: its position, the actors of runOnce, the socket

vars == << ds, files, devices, mu, deviceGauge, allocationsCounter, panicked,
           stream, alloc, source, ready, cancelled, scan, main, plugin >>

\* The entries a scan may find under usbDevicesDir, in the order of
\* os.ReadDir (by file name): a raw file, two keys, the interface directory
\* of the first, and a device whose idProduct reads as an empty line.
ScanNames == << "1-1", "1-1:1.0", "1-2", "1-3", "lock" >>

ScanPaths == { usbDevicesDir } \cup { SysfsPath(ScanNames[n]) : n \in 1..Len(ScanNames) }

\* No call of enumerateUSBDevices is running.
IdleScan ==
    [pc |-> "idle", err |-> "", allDevs |-> << >>, next |-> 0,
     task |-> [n \in 1..Len(ScanNames) |-> "none"], specs |-> << >>, closed |-> FALSE]

NoReturn == [valid |-> FALSE, same |-> FALSE, err |-> "", oldIDs |-> {}, newIDs |-> {},
             first |-> FALSE]

\* Main after g.Run() has started the plugin of a device specification.
MainRunning(spec) ==
    [pc |-> "running", config |-> << >>, deviceSpecs |-> << spec >>, i |-> 2, err |-> "",
     started |-> << spec.Name >>]

\* NewPlugin: the plugin of a device whose Run is about to enter its loop;
\* no runOnce has run, the socket file does not exist and the restart
\* counter is zero.  first is the return value of the first actor of the
\* run.Group to return, faults counts what the environment has done.
NewPlugin ==
    [pc |-> "select", err |-> "", restartsTotal |-> 0, socket |-> "absent",
     g |-> "none", first |-> "none", serve |-> "none", register |-> "none",
     watch |-> "none", served |-> FALSE, dialled |-> FALSE, registered |-> FALSE,
     runs |-> 0, failed |-> 0, registrations |-> 0, faults |-> 0]

\* The locals of a ListAndWatch call that is not running.
IdleStream ==
    [pc |-> "idle", initial |-> TRUE, devs |-> << >>, old |-> << >>, equal |-> FALSE,
     i |-> 0, ok |-> FALSE, returned |-> NoReturn, sent |-> {}, sends |-> "none",
     err |-> ""]

IdleAlloc ==
    [pc |-> "idle", req |-> << >>,
     res |-> [err |-> "", id |-> "", ContainerResponses |-> << >>], counted |-> 0,
     calls |-> "none"]

\* NewGenericPlugin: an empty map, an unlocked mutex, metrics at zero.
NewGenericPlugin(spec) ==
    /\ ds = spec
    /\ devices = << >>
    /\ mu = Unlocked
    /\ deviceGauge = 0
    /\ allocationsCounter = 0
    /\ panicked = FALSE
    /\ stream = [s \in Streams |-> IdleStream]
    /\ alloc = [a \in Allocators |-> IdleAlloc]
    /\ source = << >>
    /\ ready = FALSE
    /\ cancelled = FALSE
    /\ scan = IdleScan
    /\ main = MainRunning(spec)
    /\ plugin = NewPlugin

Init ==
    /\ files \in SUBSET AllPaths
    /\ \E spec \in DeviceSpecs : NewGenericPlugin(spec)

\* The map a complete run of the populate loop builds from a discovery
\* result (a later device with the same id overwrites an earlier one).
RECURSIVE MapOf(_, _)
MapOf(devs, n) ==
    IF n = 0 THEN << >>
    ELSE (devs[n].ID :> devs[n]) @@ MapOf(devs, n - 1)

\* The {id, health} pairs of a device map.
Listing(devmap) == { << devmap[id].ID, devmap[id].Health >> : id \in DOMAIN devmap }

(***************************************************************************)
(* The environment: device nodes appear and disappear.                     *)
(***************************************************************************)
Plug(p) ==
    /\ p \notin files
    /\ files' = files \cup { p }
    /\ UNCHANGED << ds, plugin, cancelled, scan, main, devices, mu, deviceGauge, allocationsCounter, panicked,
                    stream, alloc, source, ready >>

Unplug(p) ==
    /\ p \in files
    /\ files' = files \ { p }
    /\ UNCHANGED << ds, plugin, cancelled, scan, main, devices, mu, deviceGauge, allocationsCounter, panicked,
                    stream, alloc, source, ready >>


(***************************************************************************)
(* refreshDevices, as called by ListAndWatch call s.                       *)
(***************************************************************************)
\* A ListAndWatch that takes the result of its first refreshDevices for
\* ok.
ReturnToListAndWatchKeepsFirst(s, same, returned) ==
    [stream[s] EXCEPT !.pc = "send",
                      !.ok = IF stream[s].initial THEN TRUE ELSE same,
                      !.devs = << >>, !.old = << >>, !.i = 0, !.equal = FALSE,
                      !.returned = returned]

\* What refreshDevices hands back to ListAndWatch: at the first call site
\* the boolean is discarded, in the loop it is assigned to ok.
ReturnToListAndWatch(s, same, returned) ==
    [stream[s] EXCEPT !.pc = "send",
                      !.ok = IF stream[s].initial THEN FALSE ELSE same,
                      !.devs = << >>, !.old = << >>, !.i = 0, !.equal = FALSE,
                      !.returned = returned]

\* A mutex that excludes nobody.
MutexAlwaysFree(caller) == TRUE

\* gp.mu.Lock() returns only when no call holds the mutex.
MutexFree(caller) == mu = Unlocked

\* devices, err := gp.discover(): a panic ends the process, a discovery
\* error is returned to ListAndWatch, which returns it as well and so ends
\* the stream, and otherwise the call goes on with the devices found.
DiscoverOutcome(s) ==
    \E found \in Discoveries(ds, files) :
        CASE found.kind = "panic" ->
               /\ panicked' = TRUE
               /\ UNCHANGED stream
          [] found.kind = "error" ->
               /\ stream' = [stream EXCEPT ![s] =
                     [IdleStream EXCEPT !.err = "failed to discover devices",
                                        !.returned = [NoReturn EXCEPT
                                             !.valid = TRUE,
                                             !.err = "failed to discover devices"]]]
               /\ UNCHANGED panicked
          [] OTHER ->
               /\ stream' = [stream EXCEPT ![s].pc = "gauge", ![s].devs = found.devices]
               /\ UNCHANGED panicked

\* A refreshDevices that sets the gauge from the result of the discovery
\* before it looks at the error.
RefreshDiscoverGaugeFirst(s) ==
    /\ ~panicked
    /\ stream[s].pc = "discover"
    /\ DiscoverOutcome(s)
    /\ deviceGauge' = IF stream'[s].err # "" THEN 0 ELSE deviceGauge
    /\ UNCHANGED << ds, plugin, cancelled, scan, main, files, devices, mu, allocationsCounter, alloc, source, ready >>

\* A refreshDevices that takes the mutex before it discovers.
RefreshDiscoverUnderMutex(s) ==
    /\ ~panicked
    /\ stream[s].pc = "discover"
    /\ MutexFree(s)
    /\ mu' = s
    /\ DiscoverOutcome(s)
    /\ UNCHANGED << ds, plugin, cancelled, scan, main, files, devices, deviceGauge, allocationsCounter, alloc,
                    source, ready >>

\* The discovery of refreshDevices, which runs without the mutex.
RefreshDiscover(s) ==
    /\ ~panicked
    /\ stream[s].pc = "discover"
    /\ DiscoverOutcome(s)
    /\ UNCHANGED << ds, plugin, cancelled, scan, main, files, devices, mu, deviceGauge, allocationsCounter, alloc,
                    source, ready >>

\* gp.deviceGauge.Set(float64(len(devices)))
RefreshGauge(s) ==
    /\ ~panicked
    /\ stream[s].pc = "gauge"
    /\ deviceGauge' = Len(stream[s].devs)
    /\ stream' = [stream EXCEPT ![s].pc = "lock"]
    /\ UNCHANGED << ds, plugin, cancelled, scan, main, files, devices, mu, allocationsCounter, panicked, alloc,
                    source, ready >>

\* A refreshDevices that goes on writing into the map it found.
RefreshLockKeepsMap(s) ==
    /\ ~panicked
    /\ stream[s].pc = "lock"
    /\ MutexFree(s)
    /\ mu' = s
    /\ source' = stream[s].devs
    /\ stream' = [stream EXCEPT ![s].pc = "populate", ![s].old = devices,
                                ![s].equal = FALSE, ![s].i = 1]
    /\ UNCHANGED << ds, plugin, cancelled, scan, main, files, devices, deviceGauge, allocationsCounter, panicked, alloc, ready >>

\* gp.mu.Lock(); old := gp.devices; gp.devices = make(map[string]device);
\* var equal bool
RefreshLock(s) ==
    /\ ~panicked
    /\ stream[s].pc = "lock"
    /\ MutexFree(s)
    /\ mu' = s
    /\ devices' = << >>
    /\ source' = stream[s].devs
    /\ stream' = [stream EXCEPT ![s].pc = "populate", ![s].old = devices,
                                ![s].equal = FALSE, ![s].i = 1]
    /\ UNCHANGED << ds, plugin, cancelled, scan, main, files, deviceGauge, allocationsCounter, panicked, alloc, ready >>

\* One iteration of "for _, d := range devices".
RefreshInsert(s) ==
    /\ ~panicked
    /\ stream[s].pc = "populate"
    /\ stream[s].i <= Len(stream[s].devs)
    /\ LET d == stream[s].devs[stream[s].i]
       IN  /\ devices' = (d.ID :> d) @@ devices
           /\ stream' = [stream EXCEPT
                  ![s].equal = IF d.ID \notin DOMAIN stream[s].old
                               THEN FALSE ELSE stream[s].equal,
                  ![s].i = stream[s].i + 1]
    /\ UNCHANGED << ds, plugin, cancelled, scan, main, files, mu, deviceGauge, allocationsCounter, panicked, alloc,
                    source, ready >>

\* The test on equal inverted: "if equal { return false }".
RefreshResultInverted(equal, old, new) ==
    IF equal THEN FALSE
    ELSE \A k \in DOMAIN old : k \in DOMAIN new

\* The rest of refreshDevices after the loop: "if !equal { return false }",
\* then the check for removed devices.
RefreshResult(equal, old, new) ==
    IF ~equal THEN FALSE
    ELSE \A k \in DOMAIN old : k \in DOMAIN new

\* ... and the deferred gp.mu.Unlock().
RefreshReturn(s) ==
    /\ ~panicked
    /\ stream[s].pc = "populate"
    /\ stream[s].i > Len(stream[s].devs)
    /\ LET same == RefreshResult(stream[s].equal, stream[s].old, devices)
       IN  stream' = [stream EXCEPT ![s] =
               ReturnToListAndWatch(s, same,
                   [valid |-> TRUE, same |-> same, err |-> "",
                    oldIDs |-> DOMAIN stream[s].old,
                    newIDs |-> IDsOf(stream[s].devs),
                    first |-> ~ready])]
    /\ mu' = Unlocked
    /\ ready' = TRUE
    /\ UNCHANGED << ds, plugin, cancelled, scan, main, files, devices, deviceGauge, allocationsCounter, panicked,
                    alloc, source >>

(***************************************************************************)
(* ListAndWatch.                                                           *)
(***************************************************************************)
\* The kubelet opens a stream: the call starts with a first refreshDevices.
ListAndWatch(s) ==
    /\ ~panicked
    /\ ~cancelled
    /\ stream[s].pc = "idle"
    /\ stream' = [stream EXCEPT ![s] = [IdleStream EXCEPT !.pc = "discover"]]
    /\ UNCHANGED << ds, plugin, cancelled, scan, main, files, devices, mu, deviceGauge, allocationsCounter, panicked,
                    alloc, source, ready >>

\* Some other call is between two writes of gp.devices.
MapBeingWritten(s) ==
    \E t \in Streams \ { s } :
        /\ stream[t].pc = "populate"
        /\ stream[t].i <= Len(stream[t].devs)

\* "for _, dev := range gp.devices", without the mutex: the listing of the
\* map, or, when the map is being written meanwhile, any part of what the
\* writer is putting there.
RangeDevices(s) ==
    IF MapBeingWritten(s)
    THEN SUBSET Listing(MapOf(source, Len(source)))
    ELSE { Listing(devices) }

\* "if !ok { ...; stream.Send(res) }" with a Send that succeeds (the gRPC
\* server has not been stopped), or the skipped body when ok.
ListAndWatchSend(s) ==
    /\ ~panicked
    /\ stream[s].pc = "send"
    /\ IF ~stream[s].ok
       THEN /\ ~cancelled
            /\ \E res \in RangeDevices(s) :
               stream' = [stream EXCEPT ![s].pc = "sleep", ![s].sent = res,
                             ![s].sends = IF stream[s].initial THEN "initial" ELSE "tick"]
       ELSE stream' = [stream EXCEPT ![s].pc = "sleep", ![s].sends = "skipped"]
    /\ UNCHANGED << ds, plugin, cancelled, scan, main, files, devices, mu, deviceGauge, allocationsCounter, panicked,
                    alloc, source, ready >>

\* stream.Send fails (the kubelet went away, or the gRPC server has been
\* stopped): ListAndWatch returns the error.
ListAndWatchSendFails(s) ==
    /\ ~panicked
    /\ stream[s].pc = "send"
    /\ ~stream[s].ok
    /\ stream' = [stream EXCEPT ![s] = [IdleStream EXCEPT !.err = "send failed"]]
    /\ UNCHANGED << ds, plugin, cancelled, scan, main, files, devices, mu, deviceGauge, allocationsCounter, panicked,
                    alloc, source, ready >>

\* The Go runtime detects the unsynchronised iteration of a map that is
\* being written and aborts the process.
ListAndWatchRangeFault(s) ==
    /\ ~panicked
    /\ stream[s].pc = "send"
    /\ ~stream[s].ok
    /\ MapBeingWritten(s)
    /\ panicked' = TRUE
    /\ UNCHANGED << ds, plugin, cancelled, scan, main, files, devices, mu, deviceGauge, allocationsCounter, stream,
                    alloc, source, ready >>

\* <-time.After(deviceCheckInterval); ok, err = gp.refreshDevices()
ListAndWatchTick(s) ==
    /\ ~panicked
    /\ stream[s].pc = "sleep"
    /\ stream' = [stream EXCEPT ![s] = [IdleStream EXCEPT !.pc = "discover",
                                                          !.initial = FALSE]]
    /\ UNCHANGED << ds, plugin, cancelled, scan, main, files, devices, mu, deviceGauge, allocationsCounter, panicked,
                    alloc, source, ready >>

(***************************************************************************)
(* plugin.Run: the end of the plugin.                                      *)
(***************************************************************************)
\* The context given to plugin.Run is cancelled: the actors of runOnce are
\* interrupted, which stops the gRPC server (its connections are closed and
\* it takes no new call); the handlers that are running go on running.
Cancel ==
    /\ ~panicked
    /\ ~cancelled
    /\ cancelled' = TRUE
    /\ UNCHANGED << ds, plugin, scan, main, files, devices, mu, deviceGauge, allocationsCounter,
                    panicked, stream, alloc, source, ready >>

(***************************************************************************)
(* enumerateUSBDevices, one statement of one goroutine at a time.          *)
(***************************************************************************)
ScanOthers == << ds, plugin, cancelled, main, files, devices, mu, deviceGauge, allocationsCounter,
                 panicked, stream, alloc, source, ready >>

\* allDevs, err := os.ReadDir(dir): the error is returned, otherwise the
\* entries that exist, by file name.
ScanReadDir ==
    /\ scan.pc = "idle"
    /\ scan' = IF usbDevicesDir \notin files
               THEN [scan EXCEPT !.pc = "returned", !.err = "no such file or directory"]
               ELSE [scan EXCEPT !.pc = "spawn",
                                 !.allDevs = SelectSeq([n \in 1..Len(ScanNames) |-> n],
                                                LAMBDA n : SysfsPath(ScanNames[n]) \in files)]
    /\ UNCHANGED ScanOthers

\* for _, dev := range allDevs { wg.Add(1); go func() {...}() }: the next
\* task is started; after the last one the goroutine that waits for the
\* tasks and closes the channel is started and the caller begins to
\* receive.
ScanSpawn ==
    /\ scan.pc = "spawn"
    /\ scan' = IF scan.next < Len(scan.allDevs)
               THEN [scan EXCEPT !.next = scan.next + 1,
                                 !.task[scan.allDevs[scan.next + 1]] = "query"]
               ELSE [scan EXCEPT !.pc = "collect"]
    /\ UNCHANGED ScanOthers

\* A task that loses its result: it is done without sending.
ScanQueryDropsResult(n) ==
    /\ scan.task[n] = "query"
    /\ scan' = [scan EXCEPT !.task[n] = "done"]
    /\ UNCHANGED ScanOthers

\* result, err := queryUSBDeviceCharacteristicsByDirectory(dev) in task n:
\* on an error the task returns (wg.Done), otherwise it goes on to send.
ScanQuery(n) ==
    /\ scan.task[n] = "query"
    /\ scan' = [scan EXCEPT !.task[n] =
                   IF queryUSBDeviceCharacteristicsByDirectory(SysfsEntry(ScanNames[n])).err # ""
                   THEN "done" ELSE "send"]
    /\ UNCHANGED ScanOthers

\* devs <- result in task n meets "for d := range devs" in the caller (the
\* channel has no buffer): the caller appends the device, the task returns.
ScanReceive(n) ==
    /\ scan.pc = "collect"
    /\ scan.task[n] = "send"
    /\ scan' = [scan EXCEPT
                   !.task[n] = "done",
                   !.specs = Append(scan.specs,
                       queryUSBDeviceCharacteristicsByDirectory(SysfsEntry(ScanNames[n])).result)]
    /\ UNCHANGED ScanOthers

\* A closing goroutine that does not wait for the tasks.
ScanCloseWithoutWait ==
    /\ scan.pc = "collect"
    /\ ~scan.closed
    /\ scan' = [scan EXCEPT !.closed = TRUE]
    /\ UNCHANGED ScanOthers

\* wg.Wait() returns when every task has returned; the channel is closed.
ScanClose ==
    /\ scan.pc = "collect"
    /\ ~scan.closed
    /\ \A m \in 1..Len(scan.allDevs) : scan.task[scan.allDevs[m]] = "done"
    /\ scan' = [scan EXCEPT !.closed = TRUE]
    /\ UNCHANGED ScanOthers

\* The range over the closed channel ends and enumerateUSBDevices returns.
ScanReturn ==
    /\ scan.pc = "collect"
    /\ scan.closed
    /\ scan' = [scan EXCEPT !.pc = "returned"]
    /\ UNCHANGED ScanOthers

(***************************************************************************)
(* Main: the configured devices are validated, then the plugins started.   *)
(***************************************************************************)
\* Largest number of devices in a configuration.
MaxDevices == 2

\* The characters [a-z0-9] of deviceTypeFmt.
Alphanumeric ==
    { "a", "b", "c", "d", "e", "f", "g", "h", "i", "j", "k", "l", "m", "n", "o", "p", "q",
      "r", "s", "t", "u", "v", "w", "x", "y", "z",
      "0", "1", "2", "3", "4", "5", "6", "7", "8", "9" }

\* deviceTypeRegexp.MatchString(name), "^[a-z0-9][-a-z0-9]*[a-z0-9]$", for a
\* name given as its sequence of characters.
MatchString(name) ==
    /\ Len(name) >= 2
    /\ name[1] \in Alphanumeric
    /\ name[Len(name)] \in Alphanumeric
    /\ \A n \in 2..(Len(name) - 1) : name[n] \in Alphanumeric \cup { "-" }

WhiteSpace == { " ", "\t", "\n", "\r" }

\* strings.TrimSpace: without its leading and trailing white space.
RECURSIVE TrimSpace(_)
TrimSpace(str) ==
    IF str = << >> THEN str
    ELSE IF Head(str) \in WhiteSpace THEN TrimSpace(Tail(str))
    ELSE IF str[Len(str)] \in WhiteSpace THEN TrimSpace(SubSeq(str, 1, Len(str) - 1))
    ELSE str

defaultDomain == << "s", "q", "u", "a", "t", ".", "a", "i" >>

\* The string of a sequence of characters.
RECURSIVE String(_)
String(chars) ==
    IF chars = << >> THEN "" ELSE Head(chars) \o String(Tail(chars))

\* path.Join(domain, trim), for a trimmed name that matched.
Join(domain, trim) == String(domain \o << "/" >> \o trim)

\* The devices that may be configured, their names as sequences of
\* characters: a serial device, the same with white space around its name,
\* one with a name that is no device type, one whose group has paths as
\* well as USB specifications, one without groups, and one whose pattern
\* is malformed.
MainDevices ==
    { [name |-> << "t", "t", "y" >>,
       groups |-> << [paths |-> << ConfiguredPath("/dev/ttyUSB*", "", FALSE) >>,
                      usb |-> << >>, count |-> 0] >>],
      [name |-> << " ", "t", "t", "y", "\n" >>,
       groups |-> << [paths |-> << ConfiguredPath("/dev/ttyUSB*", "", FALSE) >>,
                      usb |-> << >>, count |-> 0] >>],
      [name |-> << "T", "t", "y", "_", "1" >>,
       groups |-> << [paths |-> << ConfiguredPath("/dev/ttyUSB*", "", FALSE) >>,
                      usb |-> << >>, count |-> 0] >>],
      [name |-> << "m", "i", "x", "e", "d" >>,
       groups |-> << [paths |-> << ConfiguredPath("/dev/ttyUSB0", "", FALSE) >>,
                      usb |-> << >>, count |-> 0],
                     [paths |-> << ConfiguredPath("/dev/ttyUSB1", "", FALSE) >>,
                      usb |-> << ConfiguredUSB(4176, 1031, "") >>, count |-> 0] >>],
      [name |-> << "n", "o", "n", "e" >>, groups |-> << >>],
      [name |-> << "b", "a", "d" >>,
       groups |-> << [paths |-> << ConfiguredPath(BadPattern, "", FALSE) >>,
                      usb |-> << >>, count |-> 0] >>] }

\* The configurations: up to MaxDevices devices.
MainConfigs == UNION { [1..n -> MainDevices] : n \in 0..MaxDevices }

\* The device specification of a plugin that does not exist.
NoDeviceSpec == [Name |-> "", Groups |-> << >>]

MainOthers == << plugin, cancelled, scan, files, devices, mu, deviceGauge, allocationsCounter,
                 panicked, stream, alloc, source, ready >>

\* deviceSpecs, err := getConfiguredDevices()
MainGetConfiguredDevices ==
    /\ main.pc = "start"
    /\ main' = [main EXCEPT
                   !.pc = "validate", !.i = 1,
                   !.deviceSpecs = [n \in 1..Len(main.config) |-> Unmarshal(main.config[n])]]
    /\ UNCHANGED << ds, plugin, MainOthers >>

\* A validation of groups that accepts all of them.
NoMixedGroup(d) == FALSE

\* Some group of the device has paths and USB specifications.
MixedGroup(d) ==
    \E g \in 1..Len(d.Groups) : Len(d.Groups[g].Paths) > 0 /\ Len(d.Groups[g].USBSpecs) > 0

\* One round of "for i, dsr := range deviceSpecs" (the device is defaulted,
\* its trimmed name must match, and no group may have paths and USB
\* specifications), and after the last round the check that there is a
\* device at all.  The paths of the configured devices have no white space
\* around them.
MainValidate ==
    /\ main.pc = "validate"
    /\ IF main.i <= Len(main.deviceSpecs)
       THEN LET d == Default(main.deviceSpecs[main.i])
                trim == TrimSpace(d.Name)
            IN  main' =
                  IF ~MatchString(trim)
                  THEN [main EXCEPT !.pc = "returned", !.err = "failed to parse device",
                                    !.deviceSpecs[main.i] = d]
                  ELSE IF MixedGroup(d)
                  THEN [main EXCEPT !.pc = "returned",
                                    !.err = "cannot define both path and usb at the same time",
                                    !.deviceSpecs[main.i] =
                                        [d EXCEPT !.Name = Join(defaultDomain, trim)]]
                  ELSE [main EXCEPT !.i = main.i + 1,
                                    !.deviceSpecs[main.i] =
                                        [d EXCEPT !.Name = Join(defaultDomain, trim)]]
       ELSE main' =
              IF Len(main.deviceSpecs) = 0
              THEN [main EXCEPT !.pc = "returned",
                                !.err = "at least one device must be specified"]
              ELSE [main EXCEPT !.pc = "plugins"]
    /\ UNCHANGED << ds, plugin, MainOthers >>

\* A plugin is constructed for every device and g.Run() starts them all;
\* the plugin whose state is followed is any one of them.
MainRun ==
    /\ main.pc = "plugins"
    /\ main' = [main EXCEPT
                   !.pc = "running",
                   !.started = [n \in 1..Len(main.deviceSpecs) |-> main.deviceSpecs[n].Name]]
    /\ \E n \in 1..Len(main.deviceSpecs) : ds' = main.deviceSpecs[n]
    /\ UNCHANGED MainOthers

(***************************************************************************)
(* plugin.Run and plugin.runOnce: the gRPC server, the registration and    *)
(* the socket watcher as the three actors of a run.Group.                  *)
(***************************************************************************)
\* The environment removes or creates the socket file, or makes the
\* kubelet refuse a registration, at most this many times, and Run
\* restarts runOnce at most as often.
MaxFaults == 2

PluginOthers == << ds, cancelled, scan, main, files, devices, mu, deviceGauge,
                   allocationsCounter, panicked, stream, alloc, source, ready >>

\* An actor of the group returns e; g.Run keeps the first value returned.
Returned(actor, e) ==
    [plugin EXCEPT ![actor] = "returned",
                   !.first = IF plugin.first = "none" THEN e ELSE plugin.first]

\* The context of the registration and of the watcher is done: the context
\* of Run is cancelled or the group has called the actor's interrupt.
ActorDone == cancelled \/ plugin.g = "interrupted"

\* select { case <-ctx.Done(): break Outer; default: p.runOnce(ctx) }
RunSelect ==
    /\ plugin.pc = "select"
    /\ plugin' = IF cancelled
                 THEN [plugin EXCEPT !.pc = "cleanUp"]
                 ELSE [plugin EXCEPT !.pc = "runOnce", !.g = "listen", !.first = "none",
                                     !.served = FALSE, !.dialled = FALSE,
                                     !.registered = FALSE, !.runs = plugin.runs + 1]
    /\ UNCHANGED PluginOthers

\* l, err := net.Listen("unix", p.socket): fails when the path exists,
\* and runOnce returns the error; otherwise the socket file is created,
\* the three actors are added and g.Run() starts them.
RunOnceListen ==
    /\ plugin.pc = "runOnce"
    /\ plugin.g = "listen"
    /\ plugin' = IF plugin.socket # "absent"
                 THEN [plugin EXCEPT !.pc = "wait", !.g = "none",
                                     !.first = "failed to listen on Unix socket",
                                     !.failed = plugin.failed + 1]
                 ELSE [plugin EXCEPT !.g = "running", !.socket = "bound",
                                     !.serve = "starting", !.register = "dialing",
                                     !.watch = "watching"]
    /\ UNCHANGED PluginOthers

\* p.grpcServer.Serve(l): the server accepts connections; when Stop has
\* been called already Serve closes the listener, which removes the socket
\* file, and returns an error.
Serve ==
    /\ plugin.serve = "starting"
    /\ plugin' = IF plugin.g = "interrupted"
                 THEN [Returned("serve", "gRPC server exited unexpectedly")
                          EXCEPT !.socket = "absent"]
                 ELSE [plugin EXCEPT !.serve = "serving", !.served = TRUE]
    /\ UNCHANGED PluginOthers

\* Serve returns nil once Stop has been called.
ServeReturn ==
    /\ plugin.serve = "serving"
    /\ plugin.g = "interrupted"
    /\ plugin' = Returned("serve", "nil")
    /\ UNCHANGED PluginOthers

\* A dial without grpc.WithBlock: it returns before there is a connection.
DialContextWithoutBlock ==
    /\ plugin.register = "dialing"
    /\ plugin' = [plugin EXCEPT !.register = "registering", !.dialled = TRUE]
    /\ UNCHANGED PluginOthers

\* grpc.DialContext(ctx, p.socket, grpc.WithBlock(), ...) returns a
\* connection: the server serves on the socket the path leads to.
DialContext ==
    /\ plugin.register = "dialing"
    /\ plugin.serve = "serving"
    /\ plugin.socket = "bound"
    /\ plugin.g = "running"
    /\ plugin' = [plugin EXCEPT !.register = "registering", !.dialled = TRUE]
    /\ UNCHANGED PluginOthers

\* The dial is given up because its context is done: the actor returns
\* the error.
DialContextFails ==
    /\ plugin.register = "dialing"
    /\ ActorDone
    /\ plugin' = Returned("register", "failed to create connection to local gRPC server")
    /\ UNCHANGED PluginOthers

\* p.registerWithKubelet(): the kubelet takes the registration and the
\* actor waits for its context, or the kubelet cannot be reached or
\* refuses and the actor returns the error.
RegisterWithKubelet ==
    /\ plugin.register = "registering"
    /\ \/ plugin' = [plugin EXCEPT !.register = "waiting", !.registered = TRUE,
                                    !.registrations = plugin.registrations + 1]
       \/ /\ plugin.faults < MaxFaults
          /\ plugin' = [Returned("register", "failed to register with kubelet")
                           EXCEPT !.faults = plugin.faults + 1]
    /\ UNCHANGED PluginOthers

\* <-ctx.Done(); return nil
RegisterDone ==
    /\ plugin.register = "waiting"
    /\ ActorDone
    /\ plugin' = Returned("register", "nil")
    /\ UNCHANGED PluginOthers

\* A watcher that does not look at the socket.
WatchSocketUnseen ==
    /\ plugin.watch = "watching"
    /\ ActorDone
    /\ plugin' = Returned("watch", "nil")
    /\ UNCHANGED PluginOthers

\* case <-t.C: os.Lstat(p.socket) fails and the watcher returns the error
\* (a tick that finds the file changes nothing).
WatchSocket ==
    /\ plugin.watch = "watching"
    /\ plugin.socket = "absent"
    /\ plugin' = Returned("watch", "failed to stat plugin socket")
    /\ UNCHANGED PluginOthers

\* case <-ctx.Done(): return nil
WatchDone ==
    /\ plugin.watch = "watching"
    /\ ActorDone
    /\ plugin' = Returned("watch", "nil")
    /\ UNCHANGED PluginOthers

\* g.Run() has received the return value of the first actor and calls the
\* interrupt of every actor: p.grpcServer.Stop(), which closes the listener
\* of a server that serves and with it removes the socket file, and the
\* cancel of the two contexts.
GroupInterrupt ==
    /\ plugin.g = "running"
    /\ plugin.first # "none"
    /\ plugin' = [plugin EXCEPT !.g = "interrupted",
                                !.socket = IF plugin.serve = "serving" THEN "absent"
                                           ELSE plugin.socket]
    /\ UNCHANGED PluginOthers

\* g.Run() returns the first value once every actor has returned; runOnce
\* returns it to Run, which goes round its loop on nil and otherwise waits.
RunOnceReturn ==
    /\ plugin.g = "interrupted"
    /\ plugin.serve = "returned" /\ plugin.register = "returned" /\ plugin.watch = "returned"
    /\ plugin' = [plugin EXCEPT !.g = "none", !.serve = "none", !.register = "none",
                                !.watch = "none",
                                !.pc = IF plugin.first = "nil" THEN "select" ELSE "wait",
                                !.failed = IF plugin.first = "nil" THEN plugin.failed
                                           ELSE plugin.failed + 1]
    /\ UNCHANGED PluginOthers

\* case <-ctx.Done(): break Outer, in the select after a failed runOnce.
RunWaitDone ==
    /\ plugin.pc = "wait"
    /\ cancelled
    /\ plugin' = [plugin EXCEPT !.pc = "cleanUp"]
    /\ UNCHANGED PluginOthers

\* A wait that goes round the loop without counting the restart.
RunWaitElapsedUncounted ==
    /\ plugin.pc = "wait"
    /\ ~cancelled
    /\ plugin.restartsTotal < MaxFaults
    /\ plugin' = [plugin EXCEPT !.pc = "select"]
    /\ UNCHANGED PluginOthers

\* case <-time.After(restartInterval): p.restartsTotal.Inc().  The timer
\* fires in a select that has been blocked for the whole interval, that
\* is, whose context was not done meanwhile.
RunWaitElapsed ==
    /\ plugin.pc = "wait"
    /\ ~cancelled
    /\ plugin.restartsTotal < MaxFaults
    /\ plugin' = [plugin EXCEPT !.pc = "select",
                                !.restartsTotal = plugin.restartsTotal + 1]
    /\ UNCHANGED PluginOthers

\* A cleanUp that leaves the socket file where it is.
CleanUpKeepsSocket ==
    /\ plugin.pc = "cleanUp"
    /\ plugin' = [plugin EXCEPT !.pc = "returned"]
    /\ UNCHANGED PluginOthers

\* return p.cleanUp(): os.Remove(p.socket) removes the file, or finds none
\* (os.IsNotExist), and Run returns nil; any other failure is returned.
CleanUp ==
    /\ plugin.pc = "cleanUp"
    /\ \/ plugin' = [plugin EXCEPT !.pc = "returned", !.socket = "absent"]
       \/ /\ plugin.socket # "absent"
          /\ plugin' = [plugin EXCEPT !.pc = "returned",
                                      !.err = "failed to remove socket"]
    /\ UNCHANGED PluginOthers

\* The socket file is removed from the plugin directory (by the kubelet
\* when it restarts, for one).
SocketRemoved ==
    /\ plugin.pc \notin { "cleanUp", "returned" }
    /\ plugin.socket # "absent"
    /\ plugin.faults < MaxFaults
    /\ plugin' = [plugin EXCEPT !.socket = "absent", !.faults = plugin.faults + 1]
    /\ UNCHANGED PluginOthers

\* A file appears at the path of the socket that no server listens on.
SocketCreated ==
    /\ plugin.pc \notin { "cleanUp", "returned" }
    /\ plugin.socket = "absent"
    /\ plugin.faults < MaxFaults
    /\ plugin' = [plugin EXCEPT !.socket = "stale", !.faults = plugin.faults + 1]
    /\ UNCHANGED PluginOthers

(***************************************************************************)
(* Allocate.                                                               *)
(***************************************************************************)
\* A call with one of the given requests arrives and takes gp.mu.
AllocateLock(a, requests) ==
    /\ ~panicked
    /\ ~cancelled
    /\ alloc[a].pc = "idle"
    /\ allocationsCounter < MaxAllocations
    /\ MutexFree(a)
    /\ mu' = a
    /\ \E req \in requests[ds] :
          alloc' = [alloc EXCEPT ![a] = [IdleAlloc EXCEPT !.pc = "locked", !.req = req]]
    /\ UNCHANGED << ds, plugin, cancelled, scan, main, files, devices, deviceGauge, allocationsCounter, panicked,
                    stream, source, ready >>

\* Inc() in place of Add(len(res.ContainerResponses)).
AllocationsPerCall(res) == 1

\* The amount Allocate adds to the counter on success.
Allocations(res) == Len(res.ContainerResponses)

\* The body of Allocate and the deferred gp.mu.Unlock().
AllocateBody(a) ==
    /\ ~panicked
    /\ alloc[a].pc = "locked"
    /\ LET res == AllocateContainers(alloc[a].req, Len(alloc[a].req), devices)
           counted == IF res.err = "" THEN Allocations(res) ELSE 0
       IN  /\ allocationsCounter' = allocationsCounter + counted
           /\ alloc' = [alloc EXCEPT ![a].pc = "done", ![a].res = res,
                                     ![a].counted = counted,
                                     ![a].calls = IF res.err = "" THEN "ok" ELSE "error"]
    /\ mu' = Unlocked
    /\ UNCHANGED << ds, plugin, cancelled, scan, main, files, devices, deviceGauge, panicked, stream, source, ready >>

\* The response or the error has been handed to the gRPC server.
AllocateReturn(a) ==
    /\ ~panicked
    /\ alloc[a].pc = "done"
    /\ alloc' = [alloc EXCEPT ![a] = IdleAlloc]
    /\ UNCHANGED << ds, plugin, cancelled, scan, main, files, devices, mu, deviceGauge, allocationsCounter, panicked,
                    stream, source, ready >>

(***************************************************************************)
(* Specifications.                                                         *)
(***************************************************************************)
\* The steps of a ListAndWatch call when no other call writes gp.devices.
SoleStreamStep(s) ==
    \/ ListAndWatch(s)
    \/ RefreshDiscover(s)
    \/ RefreshGauge(s)
    \/ RefreshLock(s)
    \/ RefreshInsert(s)
    \/ RefreshReturn(s)
    \/ ListAndWatchSend(s)
    \/ ListAndWatchSendFails(s)
    \/ ListAndWatchTick(s)

\* The steps of a ListAndWatch call next to other ListAndWatch calls.
StreamStep(s) ==
    \/ SoleStreamStep(s)
    \/ ListAndWatchRangeFault(s)

EnvironmentStep ==
    \/ \E p \in AllPaths : Plug(p)
    \/ \E p \in AllPaths : Unplug(p)

\* One ListAndWatch stream and Allocate calls with at most one container
\* request of at most one id, on a changing file system.
Next ==
    \/ EnvironmentStep
    \/ SoleStreamStep("s1")
    \/ \E a \in Allocators : AllocateLock(a, SmallRequests)
    \/ \E a \in Allocators : AllocateBody(a)
    \/ \E a \in Allocators : AllocateReturn(a)

Spec == Init /\ [][Next]_vars

\* Several ListAndWatch streams on the same plugin, on a changing file
\* system.
NextStreams ==
    \/ EnvironmentStep
    \/ \E s \in Streams : StreamStep(s)

SpecStreams == Init /\ [][NextStreams]_vars

\* The plugin once stream s has run its first refreshDevices on the devices
\* devs and sent its first device list, asleep until the next tick.
InventoryLoaded(spec, s, devs) ==
    /\ ds = spec
    /\ devices = MapOf(devs, Len(devs))
    /\ mu = Unlocked
    /\ deviceGauge = Len(devs)
    /\ allocationsCounter = 0
    /\ panicked = FALSE
    /\ stream = [t \in Streams |->
                    IF t = s
                    THEN [IdleStream EXCEPT
                             !.pc = "sleep",
                             !.returned = [valid |-> TRUE, same |-> FALSE, err |-> "",
                                           oldIDs |-> {}, newIDs |-> IDsOf(devs),
                                           first |-> TRUE],
                             !.sent = Listing(MapOf(devs, Len(devs))),
                             !.sends = "initial"]
                    ELSE IdleStream]
    /\ alloc = [a \in Allocators |-> IdleAlloc]
    /\ source = devs
    /\ ready = TRUE
    /\ cancelled = FALSE
    /\ scan = IdleScan
    /\ main = MainRunning(spec)
    /\ plugin = NewPlugin

\* A plugin whose inventory has been loaded from the host's files, or, where
\* discovery cannot succeed on them, a plugin just constructed.
InitAllocate ==
    /\ files \in SUBSET AllPaths
    /\ \E spec \in DeviceSpecs :
          IF discover(spec, files).kind = "ok"
          THEN InventoryLoaded(spec, "s1", discover(spec, files).devices)
          ELSE NewGenericPlugin(spec)

\* One ListAndWatch stream on a changing file system, of a plugin whose
\* context is cancelled at some time.
NextCancel ==
    \/ EnvironmentStep
    \/ SoleStreamStep("s1")
    \/ Cancel

SpecCancel == Init /\ [][NextCancel]_vars

\* A plugin just constructed for path groups, on a host with any of the
\* device nodes.
InitPath ==
    /\ files \in SUBSET NodePaths
    /\ \E spec \in PathDeviceSpecs : NewGenericPlugin(spec)

\* One ListAndWatch stream of that plugin on a file system that does not
\* change: every refresh of the stream calls discoverPath again.
NextPath == SoleStreamStep("s1")

SpecPath == InitPath /\ [][NextPath]_vars

\* A plugin just constructed for a specification of two path groups, on a
\* host with any of the device nodes.
InitGroups ==
    /\ files \in SUBSET NodePaths
    /\ \E spec \in GroupedPathSpecs : NewGenericPlugin(spec)

NextGroups == SoleStreamStep("s1")

SpecGroups == InitGroups /\ [][NextGroups]_vars

\* A plugin just constructed for USB devices, on a host with any part of
\* the USB sysfs tree.
InitUSB ==
    /\ files \in SUBSET UsbPaths
    /\ \E spec \in UsbDeviceSpecs : NewGenericPlugin(spec)

\* One ListAndWatch stream of a plugin for USB devices, while devices are
\* attached and detached and the bus root comes and goes.
NextUSB ==
    \/ \E p \in UsbPaths : Plug(p)
    \/ \E p \in UsbPaths : Unplug(p)
    \/ SoleStreamStep("s1")

SpecUSB == InitUSB /\ [][NextUSB]_vars

\* A plugin just constructed for a decoded and defaulted configuration: of
\* path groups, on a host with any of the device nodes, or of USB groups,
\* on a host with any part of the USB sysfs tree.
InitConfigured ==
    \/ /\ files \in SUBSET NodePaths
       /\ \E spec \in ConfiguredPathSpecs : NewGenericPlugin(spec)
    \/ /\ files \in SUBSET UsbPaths
       /\ \E spec \in ConfiguredUsbSpecs : NewGenericPlugin(spec)

\* One ListAndWatch stream of that plugin on a file system that does not
\* change.
NextConfigured == SoleStreamStep("s1")

SpecConfigured == InitConfigured /\ [][NextConfigured]_vars

\* A host with any part of the USB sysfs tree, before a scan of the bus.
InitScan ==
    /\ files \in SUBSET ScanPaths
    /\ NewGenericPlugin(KeySpec)

\* One call of enumerateUSBDevices: the caller and its tasks, interleaved.
NextScan ==
    \/ ScanReadDir
    \/ ScanSpawn
    \/ \E n \in 1..Len(ScanNames) : ScanQuery(n)
    \/ \E n \in 1..Len(ScanNames) : ScanReceive(n)
    \/ ScanClose
    \/ ScanReturn

SpecScan == InitScan /\ [][NextScan]_vars

\* The same call under the Go scheduler, which lets every goroutine that
\* can take a step take one eventually.
SpecScanFair == InitScan /\ [][NextScan]_vars /\ WF_vars(NextScan)

\* The steps of plugin.Run, of runOnce and of its actors.
RestartStep ==
    \/ RunSelect
    \/ RunOnceListen
    \/ Serve
    \/ ServeReturn
    \/ DialContext
    \/ DialContextFails
    \/ RegisterWithKubelet
    \/ RegisterDone
    \/ WatchSocket
    \/ WatchDone
    \/ GroupInterrupt
    \/ RunOnceReturn
    \/ RunWaitElapsed

PluginStep ==
    \/ RestartStep
    \/ RunWaitDone
    \/ CleanUp

\* A plugin just constructed whose Run is called.
InitRun ==
    /\ files = {}
    /\ NewGenericPlugin(SerialSpec)

\* plugin.Run with a context that may be cancelled at any time and a
\* plugin directory in which the socket file may be removed or replaced;
\* the Go scheduler lets every goroutine that can take a step take one.
NextRun ==
    \/ PluginStep
    \/ Cancel
    \/ SocketRemoved
    \/ SocketCreated

SpecRun == InitRun /\ [][NextRun]_vars /\ WF_vars(PluginStep)

\* plugin.Run with a context that is never cancelled, in a plugin
\* directory from which the socket file may be removed.
NextRestart ==
    \/ RestartStep
    \/ SocketRemoved

SpecRestart == InitRun /\ [][NextRestart]_vars /\ WF_vars(RestartStep)

\* Main is entered with some configuration, on a host with any of the
\* device nodes; no plugin exists.
InitMain ==
    /\ files \in SUBSET AllPaths
    /\ \E config \in MainConfigs :
          main = [pc |-> "start", config |-> config, deviceSpecs |-> << >>, i |-> 0,
                  err |-> "", started |-> << >>]
    /\ ds = NoDeviceSpec
    /\ devices = << >>
    /\ mu = Unlocked
    /\ deviceGauge = 0
    /\ allocationsCounter = 0
    /\ panicked = FALSE
    /\ stream = [s \in Streams |-> IdleStream]
    /\ alloc = [a \in Allocators |-> IdleAlloc]
    /\ source = << >>
    /\ ready = FALSE
    /\ cancelled = FALSE
    /\ scan = IdleScan
    /\ plugin = NewPlugin

\* Main, and once the plugins run one ListAndWatch stream of one of them.
NextMain ==
    \/ MainGetConfiguredDevices
    \/ MainValidate
    \/ MainRun
    \/ main.pc = "running" /\ SoleStreamStep("s1")

SpecMain == InitMain /\ [][NextMain]_vars

\* Allocate calls with several container requests of several ids, between
\* two ticks of the stream.
NextAllocate ==
    \/ \E a \in Allocators : AllocateLock(a, LargeRequests)
    \/ \E a \in Allocators : AllocateBody(a)
    \/ \E a \in Allocators : AllocateReturn(a)

SpecAllocate == InitAllocate /\ [][NextAllocate]_vars

(***************************************************************************)
(* Properties of refreshDevices and ListAndWatch.                          *)
(***************************************************************************)
\* C1: a successful refreshDevices that is not the plugin's first and that
\* discovers exactly the ids the inventory held reports "unchanged" (true).
C1_SameIdsReportUnchanged ==
    \A s \in Streams :
        LET r == stream[s].returned
        IN  (r.valid /\ r.err = "" /\ ~r.first /\ r.oldIDs = r.newIDs) => r.same

\* C2: a successful refreshDevices that discovers an id set different from
\* the one the inventory held (an id appeared or vanished) reports
\* "changed" (false).
C2_ChangedIdsReportChanged ==
    \A s \in Streams :
        LET r == stream[s].returned
        IN  (r.valid /\ r.err = "" /\ r.oldIDs # r.newIDs) => ~r.same

\* A later refresh has returned after it replaced a non-empty inventory by
\* a different non-empty one.
C2_Witness ==
    \E s \in Streams :
        LET r == stream[s].returned
        IN  /\ r.valid /\ r.err = "" /\ ~r.first
            /\ r.oldIDs # r.newIDs
            /\ r.oldIDs # {} /\ r.newIDs # {}

\* C3: a device list sent after a tick of the loop follows a refresh that
\* reported a change, and that refresh found an id set other than the
\* previous one (a tick that finds the same ids sends nothing).
C3_TickSendsOnlyAfterChange ==
    \A s \in Streams :
        stream[s].sends = "tick" =>
            /\ ~stream[s].returned.same
            /\ stream[s].returned.oldIDs # stream[s].returned.newIDs

\* C5: every response a stream sends lists one complete inventory: the one
\* gp.devices was last rebuilt from or, while another call is rebuilding
\* it, the one that call replaced.
C5_ResponseIsCompleteSnapshot ==
    [][\A s \in Streams :
          (stream[s].pc = "send" /\ stream'[s].pc = "sleep"
              /\ stream'[s].sends # "skipped") =>
             stream'[s].sent \in
                 { Listing(MapOf(source, Len(source))) } \cup
                 { Listing(stream[t].old) :
                      t \in { u \in Streams : stream[u].pc = "populate" } }]_vars

\* C6: at most one call is inside refreshDevices (from the start of its
\* discovery to its return) at any time.
C6_OneRefreshCycleAtATime ==
    Cardinality({ s \in Streams :
                    stream[s].pc \in { "discover", "gauge", "lock", "populate" } }) <= 1

(***************************************************************************)
(* Properties of Allocate.                                                 *)
(***************************************************************************)
\* C4: whenever an Allocate call holds the mutex, gp.devices is the complete
\* map of one discovery result and no refresh is between its replacement
\* of the map and its return.
C4_AllocateResolvesOnCompleteSnapshot ==
    \A a \in Allocators :
        alloc[a].pc = "locked" =>
            /\ devices = MapOf(source, Len(source))
            /\ \A s \in Streams : stream[s].pc # "populate"

\* An Allocate call holds the mutex while a refresh that has discovered
\* another set of devices waits for it.
C4_Witness ==
    \E a \in Allocators : \E s \in Streams :
        /\ alloc[a].pc = "locked" /\ alloc[a].req # << >>
        /\ stream[s].pc = "lock"
        /\ stream[s].devs # << >>
        /\ devices # << >>
        /\ IDsOf(stream[s].devs) # DOMAIN devices

\* C7: from the start of its discovery until it asks for the mutex, a
\* refresh does not hold the mutex and the stored inventory is the last
\* complete one.
C7_DiscoveryHoldsNoMutex ==
    \A s \in Streams :
        stream[s].pc \in { "discover", "gauge", "lock" } =>
            /\ mu # s
            /\ devices = MapOf(source, Len(source))

\* An Allocate call holds the mutex and is about to resolve its ids on a
\* populated inventory while a refresh of the loop is in its discovery.
C7_Witness ==
    \E a \in Allocators : \E s \in Streams :
        /\ stream[s].pc = "discover" /\ ~stream[s].initial
        /\ alloc[a].pc = "locked" /\ alloc[a].req # << >>
        /\ devices # << >>

\* C8: an Allocate call in which some requested id of some container
\* request is not in the inventory returns an error and no response, and
\* leaves the allocation counter and the inventory as they were.
C8_UnknownIdFailsWholeCall ==
    [][\A a \in Allocators :
          (/\ alloc[a].pc = "locked" /\ alloc'[a].pc = "done"
           /\ \E c \in 1..Len(alloc[a].req) : \E n \in 1..Len(alloc[a].req[c]) :
                 alloc[a].req[c][n] \notin DOMAIN devices) =>
             /\ alloc'[a].res.err # ""
             /\ alloc'[a].res.ContainerResponses = << >>
             /\ allocationsCounter' = allocationsCounter
             /\ devices' = devices]_vars

\* A call has failed on the second id of its second container request
\* after a first container request and a first id that were in the
\* inventory.
C8_Witness ==
    \E a \in Allocators :
        /\ alloc[a].pc = "done" /\ alloc[a].calls = "error"
        /\ Len(alloc[a].req) = 2
        /\ Len(alloc[a].req[1]) >= 1
        /\ \A n \in 1..Len(alloc[a].req[1]) : alloc[a].req[1][n] \in DOMAIN devices
        /\ Len(alloc[a].req[2]) = 2
        /\ alloc[a].req[2][1] \in DOMAIN devices
        /\ alloc[a].req[2][2] \notin DOMAIN devices

\* C9: a successful Allocate returns one response per container request, in
\* request order; its device-specs (mounts) are the stored device-specs
\* (mounts) of the requested units laid end to end in the order the ids
\* were requested, an id requested twice contributing twice.
C9_ResponseConcatenatesInRequestOrder ==
    [][\A a \in Allocators :
          (alloc[a].pc = "locked" /\ alloc'[a].pc = "done" /\ alloc'[a].res.err = "") =>
             LET req == alloc[a].req
                 out == alloc'[a].res.ContainerResponses
                 RECURSIVE EndToEnd(_)
                 EndToEnd(ss) == IF ss = << >> THEN << >>
                                 ELSE Head(ss) \o EndToEnd(Tail(ss))
             IN  /\ Len(out) = Len(req)
                 /\ \A c \in 1..Len(req) :
                       /\ out[c].Devices =
                             EndToEnd([n \in 1..Len(req[c]) |->
                                          devices[req[c][n]].deviceSpecs])
                       /\ out[c].Mounts =
                             EndToEnd([n \in 1..Len(req[c]) |->
                                          devices[req[c][n]].mounts])]_vars

\* A call has succeeded whose first container request names one id twice
\* and whose second names two different ids.
C9_Witness ==
    \E a \in Allocators :
        /\ alloc[a].pc = "done" /\ alloc[a].calls = "ok"
        /\ Len(alloc[a].req) = 2
        /\ Len(alloc[a].req[1]) = 2 /\ alloc[a].req[1][1] = alloc[a].req[1][2]
        /\ Len(alloc[a].req[2]) = 2 /\ alloc[a].req[2][1] # alloc[a].req[2][2]
        /\ Len(alloc[a].res.ContainerResponses[1].Devices)
              + Len(alloc[a].res.ContainerResponses[1].Mounts) >= 2

\* C10: no step decreases the allocation counter, and a successful Allocate
\* increases it by exactly the number of container requests of the call.
C10_CounterCountsContainers ==
    [][/\ allocationsCounter' >= allocationsCounter
       /\ \A a \in Allocators :
             (alloc[a].pc = "locked" /\ alloc'[a].pc = "done" /\ alloc'[a].res.err = "") =>
                allocationsCounter' = allocationsCounter + Len(alloc[a].req)]_vars

\* A successful call with two container requests has been counted after
\* an earlier successful call.
C10_Witness ==
    \E a \in Allocators :
        /\ alloc[a].pc = "done" /\ alloc[a].calls = "ok"
        /\ Len(alloc[a].req) = 2
        /\ alloc[a].counted = 2
        /\ allocationsCounter > 2

(***************************************************************************)
(* Properties of a refresh whose discovery fails.                          *)
(***************************************************************************)
\* C11: a refreshDevices whose discovery fails returns an error and leaves
\* the stored inventory and the device gauge exactly as they were.
C11_FailedRefreshKeepsInventory ==
    [][\A s \in Streams :
          (/\ stream[s].pc = "discover" /\ stream'[s] # stream[s]
           /\ \E found \in Discoveries(ds, files) : found.kind = "error") =>
             /\ stream'[s].returned.valid
             /\ stream'[s].returned.err # ""
             /\ devices' = devices
             /\ deviceGauge' = deviceGauge]_vars

\* A refresh has failed on an inventory that an earlier refresh had
\* populated, and the inventory and the gauge still show its devices.
C11_Witness ==
    \E s \in Streams :
        /\ stream[s].returned.valid /\ stream[s].returned.err # ""
        /\ ready
        /\ devices # << >>
        /\ deviceGauge > 0
        /\ usbDevicesDir \notin files

\* C12: a refresh of the ListAndWatch loop whose discovery fails does not
\* end the stream: the call stays in its loop, where the next tick retries.
C12_LoopSurvivesDiscoveryError ==
    [][\A s \in Streams :
          (/\ stream[s].pc = "discover" /\ ~stream[s].initial
           /\ stream'[s] # stream[s]
           /\ \E found \in Discoveries(ds, files) : found.kind = "error") =>
             stream'[s].pc # "idle"]_vars

(***************************************************************************)
(* Properties of the end of the plugin.                                    *)
(***************************************************************************)
\* C13: once the context of the plugin is cancelled, no ListAndWatch loop
\* starts another refresh cycle (no call goes from its wait for the tick
\* to a new refreshDevices).
C13_NoRefreshAfterCancel ==
    [][cancelled =>
          \A s \in Streams :
             ~(stream[s].pc = "sleep" /\ stream'[s].pc = "discover")]_vars

(***************************************************************************)
(* Properties of the device gauge.                                         *)
(***************************************************************************)
\* C14: when a successful refreshDevices returns, the device gauge is the
\* number of units in the stored inventory.
C14_GaugeCountsInventory ==
    [][\A s \in Streams :
          (stream[s].pc = "populate" /\ stream'[s].pc = "send") =>
             deviceGauge' = Cardinality(DOMAIN devices')]_vars

(***************************************************************************)
(* Properties of discoverPath.                                             *)
(***************************************************************************)
\* C15: when every PathSpec of the group matches at least one path,
\* discoverPath forms min(match counts) x count units, and the units of
\* index i carry, in PathSpec order, the i-th of each PathSpec's matches in
\* lexicographic order.
C15_ZipsSortedMatches ==
    [][\A s \in Streams :
          LET group == ds.Groups[1]
              K == Len(group.Paths)
              found(k) == NodeMatches(group.Paths[k].Path) \cap files
              least == CHOOSE n \in { Cardinality(found(k)) : k \in 1..K } :
                          \A k \in 1..K : n <= Cardinality(found(k))
              nth(S, n) == CHOOSE x \in S :
                              Cardinality({ y \in S : Rank(y) < Rank(x) }) = n - 1
              devs == stream'[s].devs
          IN  (/\ ds \in PathDeviceSpecs
               /\ stream[s].pc = "discover"
               /\ stream'[s] # stream[s] \/ panicked' # panicked
               /\ \A k \in 1..K : found(k) # {}) =>
                 /\ ~panicked'
                 /\ stream'[s].pc = "gauge"
                 /\ Len(devs) = least * group.Count
                 /\ \A i \in 0..(least - 1) : \A j \in 0..(group.Count - 1) :
                       LET d == devs[i * group.Count + j + 1]
                       IN  /\ d.mounts = << >>
                           /\ [k \in 1..Len(d.deviceSpecs) |-> d.deviceSpecs[k].HostPath]
                                 = [k \in 1..K |-> nth(found(k), i + 1)]]_vars

\* The first pattern matches four paths and the second two, and the
\* discovery has formed the units of two indices, twice each.
C15_Witness ==
    \E s \in Streams :
        /\ ds = SerialCameraSpec(2)
        /\ files = NodePaths
        /\ stream[s].pc = "gauge"
        /\ Len(stream[s].devs) = 4
        /\ stream[s].devs[3].deviceSpecs[1].HostPath = "/dev/ttyUSB1"
        /\ stream[s].devs[3].deviceSpecs[2].HostPath = "/dev/video1"

\* C16: when some PathSpec of the group matches no path, discoverPath
\* returns no unit for the group, without an error or a fault, whatever
\* the position of that PathSpec and whatever the others match.
C16_MissingPathYieldsNothing ==
    [][\A s \in Streams :
          LET group == ds.Groups[1]
              found(k) == NodeMatches(group.Paths[k].Path) \cap files
          IN  (/\ ds \in PathDeviceSpecs
               /\ stream[s].pc = "discover"
               /\ stream'[s] # stream[s] \/ panicked' # panicked
               /\ \E k \in 1..Len(group.Paths) : found(k) = {}) =>
                 /\ ~panicked'
                 /\ stream'[s].pc = "gauge"
                 /\ stream'[s].devs = << >>]_vars

\* C17: in the result of discoverPath for a group of count n, the units
\* that carry the same matched paths are exactly n, with n different ids.
C17_CountUnitsPerCombination ==
    [][\A s \in Streams :
          LET devs == stream'[s].devs
              hosts(d) == [k \in 1..Len(d.deviceSpecs) |-> d.deviceSpecs[k].HostPath]
          IN  (/\ ds \in PathDeviceSpecs
               /\ stream[s].pc = "discover" /\ stream'[s].pc = "gauge") =>
                 \A m \in 1..Len(devs) :
                    LET same == { n \in 1..Len(devs) : hosts(devs[n]) = hosts(devs[m]) }
                    IN  /\ Cardinality(same) = ds.Groups[1].Count
                        /\ Cardinality({ devs[n].ID : n \in same }) = ds.Groups[1].Count]_vars

\* A discovery has returned two units for one pair of paths, each pair
\* being one of two that matched.
C17_Witness ==
    \E s \in Streams :
        /\ ds \in PathDeviceSpecs /\ ds.Groups[1].Count = 2
        /\ stream[s].pc = "gauge"
        /\ Len(stream[s].devs) = 4
        /\ stream[s].devs[1].deviceSpecs = stream[s].devs[2].deviceSpecs
        /\ stream[s].devs[1].ID # stream[s].devs[2].ID
        /\ stream[s].devs[2].deviceSpecs # stream[s].devs[3].deviceSpecs

\* C18: on a file system that has not changed, a later call of
\* discoverPath returns the unit sequence (ids included) that the earlier
\* call returned, in whatever order the Glob calls of either list their
\* matches.
C18_SameUnitsOnUnchangedFiles ==
    [][\A s \in Streams :
          (/\ ds \in PathDeviceSpecs
           /\ ready
           /\ stream[s].pc = "discover" /\ stream'[s].pc = "gauge") =>
             /\ stream'[s].devs = source
             /\ IDsOf(stream'[s].devs) = DOMAIN devices]_vars

\* A second discovery has returned, where a pattern has several matches
\* that its Glob call could list in more than one order.
C18_Witness ==
    \E s \in Streams :
        /\ ds \in PathDeviceSpecs
        /\ ready /\ ~stream[s].initial
        /\ stream[s].pc = "gauge"
        /\ Len(stream[s].devs) >= 2
        /\ Cardinality(files) >= 5

\* C20: for the matched paths of any unit, two different repetition
\* indices give different id inputs (the decimal index followed by the
\* paths in order), hence different ids.
C20_RepetitionsNeverShareIdInput ==
    \A s \in Streams :
        (ds \in PathDeviceSpecs /\ stream[s].pc = "gauge") =>
            \A m \in 1..Len(stream[s].devs) :
               LET group == ds.Groups[1]
                   K == Len(group.Paths)
                   paths == [k \in 1..K |-> << stream[s].devs[m].deviceSpecs[k].HostPath >>]
               IN  \A j1, j2 \in 0..MaxRepetition :
                      j1 # j2 =>
                         /\ BuildDevice(group, paths, 0, j1, K).written
                               # BuildDevice(group, paths, 0, j2, K).written
                         /\ NewDevice(group, paths, 0, j1).ID
                               # NewDevice(group, paths, 0, j2).ID

\* A discovery has returned the two repetitions of one pair of paths,
\* whose ids differ.
C20_Witness ==
    \E s \in Streams :
        /\ ds \in PathDeviceSpecs /\ ds.Groups[1].Count >= 2
        /\ stream[s].pc = "gauge"
        /\ Len(stream[s].devs) >= 2
        /\ stream[s].devs[1].deviceSpecs = stream[s].devs[2].deviceSpecs
        /\ stream[s].devs[1].ID = Sha1Hex("0" \o stream[s].devs[1].deviceSpecs[1].HostPath
                                              \o stream[s].devs[1].deviceSpecs[2].HostPath)
        /\ stream[s].devs[2].ID = Sha1Hex("1" \o stream[s].devs[2].deviceSpecs[1].HostPath
                                              \o stream[s].devs[2].deviceSpecs[2].HostPath)

(***************************************************************************)
(* Properties of discoverUSB.                                              *)
(***************************************************************************)
\* C19: the unit ids a run of discoverUSB returns are those of every other
\* run on the same USB bus, however the concurrent scan tasks of either
\* run are scheduled.
C19_UsbIdsIndependentOfScanOrder ==
    [][\A s \in Streams :
          (/\ ds \in UsbDeviceSpecs
           /\ stream[s].pc = "discover" /\ stream'[s].pc = "gauge") =>
             \A other \in discoverUSB(ds, files) :
                other.kind = "ok" => IDsOf(other.devices) = IDsOf(stream'[s].devs)]_vars


(***************************************************************************)
(* Properties of discoverPath on configured device specifications.         *)
(***************************************************************************)
\* C21: for a group all of whose configured paths are optional, discoverPath
\* returns no unit and no error when no path resolves, and when some
\* resolve it returns one unit per repetition, whose device-specs are the
\* resolved paths in the order they are declared.
C21_OptionalPathsResolvePartially ==
    [][\A s \in Streams : \A raw \in PathConfigs :
          LET group == raw.groups[1]
              K == Len(group.paths)
              declared == [k \in 1..K |-> group.paths[k].path]
              resolved == SelectSeq(declared, LAMBDA p : NodeMatches(p) \cap files # {})
              devs == stream'[s].devs
          IN  (/\ ds = Default(Unmarshal(raw))
               /\ \A k \in 1..K : group.paths[k].optional
               /\ stream[s].pc = "discover"
               /\ stream'[s] # stream[s] \/ panicked' # panicked) =>
                 /\ ~panicked'
                 /\ stream'[s].pc = "gauge"
                 /\ IF resolved = << >> THEN devs = << >>
                    ELSE /\ Len(devs) = ds.Groups[1].Count
                         /\ \A n \in 1..Len(devs) :
                               [k \in 1..Len(devs[n].deviceSpecs) |->
                                   devs[n].deviceSpecs[k].HostPath] = resolved]_vars

\* C22: for a path whose configured mountPath ends in a separator, the
\* container path in every unit is that directory joined with the base
\* name of the matched host path.
C22_MountDirectoryJoinsBaseName ==
    [][\A s \in Streams :
          LET Base(p) == CASE p = "/dev/ttyUSB0" -> "ttyUSB0"
                           [] p = "/dev/ttyUSB1" -> "ttyUSB1"
                           [] p = "/dev/ttyUSB2" -> "ttyUSB2"
                           [] p = "/dev/ttyUSB3" -> "ttyUSB3"
                           [] OTHER -> p
              devs == stream'[s].devs
          IN  (/\ ds = Default(Unmarshal(TtyUnderConfig))
               /\ stream[s].pc = "discover" /\ stream'[s].pc = "gauge") =>
                 \A n \in 1..Len(devs) :
                    devs[n].deviceSpecs[1].ContainerPath
                       = TtyUnderConfig.groups[1].paths[1].mountPath
                            \o Base(devs[n].deviceSpecs[1].HostPath)]_vars

\* C23: for a defaulted group of one path and count 1, discoverPath
\* returns one unit per matched path, in sorted order, each with exactly
\* one device-spec, of permissions mrw, whose host path is the matched path
\* and whose container path is the matched path when no mountPath is
\* configured, and the mountPath when one that does not end in a separator
\* is.
C23_OneUnitPerMatchedPath ==
    [][\A s \in Streams : \A raw \in { TtyConfig, TtyAtConfig } :
          LET path == raw.groups[1].paths[1]
              found == NodeMatches(path.path) \cap files
              nth(n) == CHOOSE x \in found :
                           Cardinality({ y \in found : Rank(y) < Rank(x) }) = n - 1
              devs == stream'[s].devs
          IN  (/\ ds = Default(Unmarshal(raw))
               /\ stream[s].pc = "discover"
               /\ stream'[s] # stream[s] \/ panicked' # panicked) =>
                 /\ ~panicked'
                 /\ stream'[s].pc = "gauge"
                 /\ Len(devs) = Cardinality(found)
                 /\ \A n \in 1..Len(devs) :
                       /\ devs[n].mounts = << >>
                       /\ devs[n].deviceSpecs
                             = << [HostPath |-> nth(n),
                                   ContainerPath |-> IF path.mountPath = "" THEN nth(n)
                                                     ELSE path.mountPath,
                                   Permissions |-> "mrw"] >>]_vars

\* The four serial adapters exist and the discovery has returned four
\* units, the second of which maps the second adapter to itself.
C23_Witness ==
    \E s \in Streams :
        /\ ds = Default(Unmarshal(TtyConfig))
        /\ stream[s].pc = "gauge"
        /\ Len(stream[s].devs) = 4
        /\ stream[s].devs[2].deviceSpecs
              = << [HostPath |-> "/dev/ttyUSB1", ContainerPath |-> "/dev/ttyUSB1",
                    Permissions |-> "mrw"] >>


(***************************************************************************)
(* Properties of the USB scan.                                             *)
(***************************************************************************)
\* C24: the host path of a USB device with bus number b and device number
\* d is /dev/bus/usb/BBB/DDD, b and d as decimals zero-padded to three
\* digits, without a sign: every host path discoverUSB attaches to a unit
\* is that path for one of the enumerated devices.
C24_BusPathIsThreeUnsignedDigits ==
    [][\A s \in Streams :
          LET Pad3(n) == (IF n < 10 THEN "00" ELSE IF n < 100 THEN "0" ELSE "")
                            \o FormatUint(n)
              present == { name \in SysfsNames : SysfsPath(name) \in files }
              enumerated ==
                  { queryUSBDeviceCharacteristicsByDirectory(SysfsEntry(name)).result :
                      name \in { n \in present :
                          queryUSBDeviceCharacteristicsByDirectory(SysfsEntry(n)).err = "" } }
              devs == stream'[s].devs
          IN  (/\ ds \in UsbDeviceSpecs
               /\ stream[s].pc = "discover" /\ stream'[s].pc = "gauge") =>
                 \A n \in 1..Len(devs) : \A k \in 1..Len(devs[n].deviceSpecs) :
                    devs[n].deviceSpecs[k].HostPath
                       \in { "/dev/bus/usb/" \o Pad3(dev.Bus) \o "/" \o Pad3(dev.BusDevice) :
                                dev \in enumerated }]_vars

\* C25: a scan returns, for a device directory whose four attribute files
\* are readable, a device whose bus and device numbers are the decimal
\* values of busnum and devnum and whose vendor and product are the
\* hexadecimal values of idVendor and idProduct, the trailing newline of
\* each file being ignored.
C25_BusAndDeviceNumbersAreDecimal ==
    LET Value(content, base) ==
            LET str == SelectSeq(content, LAMBDA c : c # "\n")
                val[n \in 0..Len(str)] ==
                    IF n = 0 THEN 0 ELSE val[n - 1] * base + HexValue(str[n])
            IN  val[Len(str)]
        devices11 == { n \in 1..Len(scan.specs) :
                          /\ scan.specs[n].Vendor = Value(SysfsEntry("1-1").idVendor, 16)
                          /\ scan.specs[n].Product = Value(SysfsEntry("1-1").idProduct, 16)
                          /\ scan.specs[n].Bus = Value(SysfsEntry("1-1").busnum, 10)
                          /\ scan.specs[n].BusDevice = Value(SysfsEntry("1-1").devnum, 10) }
    IN  (/\ scan.pc = "returned"
         /\ usbDevicesDir \in files
         /\ SysfsPath("1-1") \in files) => devices11 # {}

\* C28: when the bus root can be read, a scan returns without an error,
\* whatever the interleaving of its tasks, exactly one device for every
\* entry whose four attribute files are readable and well-formed, the
\* device of that entry's own files, and nothing for any other entry.
C28_ScanTasksAreIsolated ==
    LET WellFormed(content) ==
            /\ content # NoFile
            /\ SelectSeq(content, LAMBDA c : c # "\n") # << >>
            /\ \A n \in 1..Len(content) : content[n] = "\n" \/ HexValue(content[n]) >= 0
        good == { n \in 1..Len(ScanNames) :
                    LET dir == SysfsEntry(ScanNames[n])
                    IN  /\ SysfsPath(ScanNames[n]) \in files
                        /\ dir.IsDir
                        /\ WellFormed(dir.idVendor) /\ WellFormed(dir.idProduct)
                        /\ WellFormed(dir.busnum) /\ WellFormed(dir.devnum) }
        own(n) == queryUSBDeviceCharacteristicsByDirectory(SysfsEntry(ScanNames[n])).result
    IN  (scan.pc = "returned" /\ usbDevicesDir \in files) =>
            /\ scan.err = ""
            /\ Len(scan.specs) = Cardinality(good)
            /\ { scan.specs[m] : m \in 1..Len(scan.specs) } = { own(n) : n \in good }

\* A scan of a bus with two keys, an interface directory, a device with a
\* malformed idProduct and a raw file has returned the second key before
\* the first.
C28_Witness ==
    /\ scan.pc = "returned"
    /\ files = ScanPaths
    /\ Len(scan.specs) = 2
    /\ scan.specs[1] = queryUSBDeviceCharacteristicsByDirectory(SysfsEntry("1-2")).result
    /\ scan.specs[2] = queryUSBDeviceCharacteristicsByDirectory(SysfsEntry("1-1")).result


\* C26: a USB specification configured with a serial number matches only
\* the devices of that serial number: the host path of a device of the
\* same vendor and product but another serial number is attached to no
\* unit.
C26_SerialMustMatch ==
    [][\A s \in Streams : \A raw \in UsbConfigs :
          LET usb == raw.groups[1].usb
              device(name) == queryUSBDeviceCharacteristicsByDirectory(SysfsEntry(name))
              present == { name \in SysfsNames :
                             SysfsPath(name) \in files /\ device(name).err = "" }
              matches(name, k) ==
                  /\ device(name).result.Vendor = usb[k].vendor
                  /\ device(name).result.Product = usb[k].product
                  /\ SysfsSerial(name) = usb[k].serial
              devs == stream'[s].devs
          IN  (/\ ds = Default(Unmarshal(raw))
               /\ \A k \in 1..Len(usb) : usb[k].serial # ""
               /\ stream[s].pc = "discover" /\ stream'[s].pc = "gauge") =>
                 \A name \in present :
                    (\A k \in 1..Len(usb) : ~matches(name, k)) =>
                       \A n \in 1..Len(devs) : \A k \in 1..Len(devs[n].deviceSpecs) :
                          devs[n].deviceSpecs[k].HostPath # BusPath(device(name).result)]_vars

\* C27: for a USB group discoverUSB returns no unit when no enumerated
\* device matches any of its USB specifications, and otherwise count
\* units, each with exactly one device-spec, of equal host and container
\* path, for every enumerated device that matches any of them; no unit has
\* an empty device-spec list or an empty host path.
C27_OneDeviceSpecPerMatchedDevice ==
    [][\A s \in Streams :
          LET group == ds.Groups[1]
              device(name) == queryUSBDeviceCharacteristicsByDirectory(SysfsEntry(name))
              present == { name \in SysfsNames :
                             SysfsPath(name) \in files /\ device(name).err = "" }
              matched == { name \in present :
                             \E k \in 1..Len(group.USBSpecs) :
                                /\ device(name).result.Vendor = group.USBSpecs[k].Vendor
                                /\ device(name).result.Product = group.USBSpecs[k].Product }
              devs == stream'[s].devs
          IN  (/\ ds \in ConfiguredUsbSpecs
               /\ stream[s].pc = "discover" /\ stream'[s].pc = "gauge") =>
                 IF matched = {} THEN devs = << >>
                 ELSE /\ Len(devs) = group.Count
                      /\ \A n \in 1..Len(devs) :
                            /\ Len(devs[n].deviceSpecs) = Cardinality(matched)
                            /\ { devs[n].deviceSpecs[k].HostPath :
                                   k \in 1..Len(devs[n].deviceSpecs) }
                                  = { BusPath(device(name).result) : name \in matched }
                            /\ \A k \in 1..Len(devs[n].deviceSpecs) :
                                  /\ devs[n].deviceSpecs[k].HostPath # ""
                                  /\ devs[n].deviceSpecs[k].ContainerPath
                                        = devs[n].deviceSpecs[k].HostPath]_vars


(***************************************************************************)
(* Properties of Main.                                                     *)
(***************************************************************************)
\* C29: Main returns an error, and starts no plugin, when the name of a
\* configured device does not match ^[a-z0-9][-a-z0-9]*[a-z0-9]$, when a
\* group has paths as well as USB specifications, or when no device is
\* configured.
C29_InvalidConfigurationStartsNothing ==
    LET config == main.config
        mixed(group) == Len(group.paths) > 0 /\ Len(group.usb) > 0
        invalid ==
            \/ config = << >>
            \/ \E n \in 1..Len(config) : ~MatchString(config[n].name)
            \/ \E n \in 1..Len(config) : \E g \in 1..Len(config[n].groups) :
                  mixed(config[n].groups[g])
    IN  (main.pc # "start" /\ invalid) =>
            /\ main.pc \notin { "plugins", "running" }
            /\ main.started = << >>
            /\ main.pc = "returned" => main.err # ""

\* C29, amended: as above, for a name that does not match once the white
\* space around it is removed.
C29_InvalidTrimmedConfigurationStartsNothing ==
    LET config == main.config
        mixed(group) == Len(group.paths) > 0 /\ Len(group.usb) > 0
        invalid ==
            \/ config = << >>
            \/ \E n \in 1..Len(config) : ~MatchString(TrimSpace(config[n].name))
            \/ \E n \in 1..Len(config) : \E g \in 1..Len(config[n].groups) :
                  mixed(config[n].groups[g])
    IN  (main.pc # "start" /\ invalid) =>
            /\ main.pc \notin { "plugins", "running" }
            /\ main.started = << >>
            /\ main.pc = "returned" => main.err # ""

\* Main has returned an error for a configuration whose first device is
\* valid and whose second has a group with paths and USB specifications.
C29_Witness ==
    /\ main.pc = "returned"
    /\ Len(main.config) = 2
    /\ MatchString(TrimSpace(main.config[1].name))
    /\ main.config[1].groups # << >>
    /\ Len(main.config[2].groups) = 2
    /\ Len(main.config[2].groups[2].usb) > 0
    /\ main.err = "cannot define both path and usb at the same time"
    /\ main.started = << >>

\* C30: Main starts no plugin for a device without groups: a
\* configuration with such a device is rejected before any plugin runs.
C30_NoGroupsStartsNothing ==
    (\E n \in 1..Len(main.config) : main.config[n].groups = << >>) =>
        /\ main.pc \notin { "plugins", "running" }
        /\ main.started = << >>


\* C31: a configuration with a syntactically invalid glob pattern is
\* rejected at startup: Main starts no plugin for it and no ListAndWatch
\* stream gets to run.
C31_BadPatternStartsNothing ==
    (\E n \in 1..Len(main.config) :
        \E g \in 1..Len(main.config[n].groups) :
           \E k \in 1..Len(main.config[n].groups[g].paths) :
              main.config[n].groups[g].paths[k].path = BadPattern) =>
        /\ main.pc \notin { "plugins", "running" }
        /\ main.started = << >>
        /\ \A s \in Streams : stream[s].pc = "idle" /\ ~stream[s].returned.valid


(***************************************************************************)
(* Properties of the first send of ListAndWatch.                           *)
(***************************************************************************)
\* C32: a ListAndWatch call sends its first list only after its first
\* refreshDevices has succeeded, and then it does send (the list of the
\* inventory, be it empty); when the first refreshDevices fails the call
\* returns the error and has sent nothing.
C32_FirstSendFollowsFirstRefresh ==
    [][\A s \in Streams :
          /\ (stream'[s].sends = "initial" /\ stream[s].sends # "initial") =>
                /\ stream[s].pc = "send" /\ stream[s].initial
                /\ stream[s].returned.valid /\ stream[s].returned.err = ""
                /\ stream'[s].sent = Listing(devices)
          /\ (stream[s].pc = "send" /\ stream[s].initial /\ stream'[s].pc = "sleep") =>
                stream'[s].sends = "initial"
          /\ (stream[s].pc = "discover" /\ stream[s].initial /\ stream'[s].err # "") =>
                /\ stream'[s].pc = "idle"
                /\ stream'[s].returned.err # ""
                /\ stream'[s].sends = "none" /\ stream'[s].sent = {}]_vars

\* The first list of a call has been sent after a first refresh that
\* found no device: it is empty.
C32_Witness ==
    \E s \in Streams :
        /\ stream[s].sends = "initial"
        /\ stream[s].pc = "sleep"
        /\ stream[s].returned.valid /\ stream[s].returned.newIDs = {}
        /\ stream[s].sent = {}


(***************************************************************************)
(* Properties of the inventory.                                            *)
(***************************************************************************)
\* C33: every unit of the inventory has health Healthy, so no Allocate
\* call fails with "requested device is not healthy" and every list sent
\* on a stream reports Healthy units only.
C33_InventoryIsHealthy ==
    /\ \A id \in DOMAIN devices : devices[id].Health = Healthy
    /\ \A a \in Allocators : alloc[a].res.err # "requested device is not healthy"
    /\ \A s \in Streams : \A unit \in stream[s].sent : unit[2] = Healthy

\* A list with a unit has been sent and an Allocate call for a unit of the
\* inventory has passed the health check.
C33_Witness ==
    /\ DOMAIN devices # {}
    /\ \E s \in Streams : stream[s].sent # {}
    /\ \E a \in Allocators :
          /\ alloc[a].pc = "done"
          /\ alloc[a].res.err = ""
          /\ \E c \in 1..Len(alloc[a].req) : alloc[a].req[c] # << >>


\* C34: when a refreshDevices returns without error the keys of the
\* inventory are exactly the ids of the devices that call discovered: an
\* id of the previous inventory is there only if it was discovered again.
C34_InventoryKeysAreDiscoveredIds ==
    [][\A s \in Streams :
          (stream[s].pc = "populate" /\ stream'[s].pc = "send") =>
              /\ DOMAIN devices' = IDsOf(stream[s].devs)
              /\ \A id \in DOMAIN stream[s].old :
                    id \in DOMAIN devices' => id \in IDsOf(stream[s].devs)]_vars

\* A refreshDevices has returned after a device of the previous inventory
\* was not discovered again, and its id is gone.
C34_Witness ==
    \E s \in Streams :
        /\ stream[s].pc = "send"
        /\ stream[s].returned.valid /\ stream[s].returned.err = ""
        /\ stream[s].returned.oldIDs \ stream[s].returned.newIDs # {}
        /\ DOMAIN devices = stream[s].returned.newIDs


\* C35: the devices of one discovery result have distinct ids, over all
\* the groups of the DeviceSpec, so that the inventory stored from the
\* result has as many entries as devices were discovered.
C35_DiscoveredIdsAreDistinct ==
    \A s \in Streams :
        /\ \A m, n \in 1..Len(stream[s].devs) :
              stream[s].devs[m].ID = stream[s].devs[n].ID => m = n
        /\ (stream[s].pc = "populate" /\ stream[s].i > Len(stream[s].devs)) =>
              Cardinality(DOMAIN devices) = Len(stream[s].devs)


(***************************************************************************)
(* Termination of enumerateUSBDevices.                                     *)
(***************************************************************************)
\* C36: enumerateUSBDevices returns, whatever the interleaving of its
\* tasks: the channel is closed only when every task has returned, so no
\* task sends on the closed channel, and at the return no task is left
\* blocked in its send.
C36_ScanTerminates ==
    /\ <>(scan.pc = "returned")
    /\ [](scan.closed =>
            \A m \in 1..Len(scan.allDevs) : scan.task[scan.allDevs[m]] = "done")
    /\ [](scan.pc = "returned" =>
            \A n \in 1..Len(ScanNames) : scan.task[n] \in { "none", "done" })

\* A scan of all five entries has returned through the closed channel with
\* the devices of two tasks, the other three tasks having returned
\* without a send.
C36_Witness ==
    /\ scan.pc = "returned"
    /\ scan.closed
    /\ Len(scan.allDevs) = Len(ScanNames)
    /\ Len(scan.specs) = 2
    /\ \A n \in 1..Len(ScanNames) : scan.task[n] = "done"


(***************************************************************************)
(* Properties of plugin.Run and plugin.runOnce.                            *)
(***************************************************************************)
\* C37: Run leaves its loop only when its context is cancelled, whatever
\* runOnce returned; once the context is cancelled no runOnce is started
\* any more and Run returns eventually; and when Run returns nil the socket
\* file does not exist.
C37_RunReturnsOnlyWhenCancelled ==
    /\ [](plugin.pc \in { "cleanUp", "returned" } => cancelled)
    /\ [][plugin'.runs # plugin.runs => ~cancelled]_vars
    /\ (cancelled ~> plugin.pc = "returned")
    /\ []((plugin.pc = "returned" /\ plugin.err = "") => plugin.socket = "absent")

\* Run has returned nil after a runOnce that failed, a restart and a
\* runOnce that registered.
C37_Witness ==
    /\ plugin.pc = "returned"
    /\ plugin.err = ""
    /\ cancelled
    /\ plugin.failed >= 1
    /\ plugin.runs >= 2
    /\ plugin.registrations >= 1
    /\ plugin.socket = "absent"


\* C38: the restart counter changes only by one, at the end of a wait
\* after a failed runOnce that elapsed without the context being
\* cancelled, and every such wait counts; a runOnce starts only when every
\* failed runOnce before it has been followed by such a wait, so the
\* counter never exceeds the number of failed runOnce calls.
C38_RestartsCountElapsedWaits ==
    /\ [][plugin'.restartsTotal # plugin.restartsTotal =>
            /\ plugin'.restartsTotal = plugin.restartsTotal + 1
            /\ plugin.pc = "wait" /\ plugin'.pc = "select"
            /\ ~cancelled]_vars
    /\ [][(plugin.pc = "wait" /\ plugin'.pc = "select") =>
            plugin'.restartsTotal = plugin.restartsTotal + 1]_vars
    /\ [][plugin'.runs # plugin.runs =>
            plugin.restartsTotal = plugin.failed /\ ~cancelled]_vars
    /\ [](plugin.restartsTotal <= plugin.failed)

\* Run has returned after two failed runOnce calls: the wait after the
\* first elapsed and was counted, the wait after the second was cut short
\* by the cancellation.
C38_Witness ==
    /\ plugin.pc = "returned"
    /\ plugin.failed = 2
    /\ plugin.restartsTotal = 1
    /\ plugin.runs = 2


\* C39: within one runOnce the local dial succeeds only while the server
\* serves on the socket that was bound, the kubelet is registered with
\* only after the local dial has succeeded, and a local dial that fails
\* or is cancelled ends the registration actor, after which runOnce
\* returns without having registered.
C39_RegistersAfterLocalDial ==
    /\ [][(plugin'.dialled /\ ~plugin.dialled) =>
            /\ plugin.g = "running"
            /\ plugin.socket = "bound"
            /\ plugin.serve = "serving"]_vars
    /\ [](plugin.registered => plugin.dialled /\ plugin.served)
    /\ [][plugin'.registrations # plugin.registrations =>
            plugin.register = "registering" /\ plugin.dialled]_vars
    /\ [][(plugin.register = "dialing" /\ plugin'.register = "returned") =>
            /\ ~plugin'.dialled /\ ~plugin'.registered
            /\ plugin'.first # "none"]_vars
    /\ ((plugin.register = "returned" /\ ~plugin.dialled)
            ~> (plugin.g = "none" /\ ~plugin.registered))

\* After a runOnce that registered, a second runOnce has returned the
\* error of its local dial without registering.
C39_Witness ==
    /\ plugin.g = "none"
    /\ plugin.runs = 2
    /\ plugin.registrations = 1
    /\ plugin.first = "failed to create connection to local gRPC server"
    /\ plugin.served
    /\ ~plugin.dialled /\ ~plugin.registered


\* C40: when the socket file is removed while the actors of a runOnce run
\* and the context is never cancelled, that runOnce returns an error, it
\* returns only when all its actors have returned and the listener is
\* closed, and a later runOnce listens on the socket and registers with
\* the kubelet.
C40_RemovedSocketRestartsPlugin ==
    /\ \A n \in 1..(MaxFaults + 1) :
          (plugin.runs = n /\ plugin.g = "running" /\ plugin.socket = "absent")
             ~> (plugin.runs = n /\ plugin.pc = "wait" /\ plugin.first \notin { "none", "nil" })
    /\ [][(plugin.g = "interrupted" /\ plugin'.g = "none") =>
            /\ plugin.serve = "returned"
            /\ plugin.register = "returned"
            /\ plugin.watch = "returned"
            /\ plugin.socket = "absent"]_vars
    /\ \A n \in 1..(MaxFaults + 1) :
          (plugin.runs = n /\ plugin.g = "running" /\ plugin.socket = "absent")
             ~> (plugin.runs > n /\ plugin.socket = "bound" /\ plugin.registered)

\* After the socket file was removed under a runOnce that had registered,
\* the restart has been counted and a second runOnce has bound the socket
\* and registered again.
C40_Witness ==
    /\ plugin.runs = 2
    /\ plugin.failed = 1
    /\ plugin.restartsTotal = 1
    /\ plugin.faults = 1
    /\ plugin.registrations = 2
    /\ plugin.g = "running"
    /\ plugin.socket = "bound"
    /\ plugin.registered

====
